---- MODULE Spec2Model ----
(***************************************************************************)
(* A model of the memory / retrieval engine and of the action execution    *)
(* engine of m_ai_gate: the tile grid with its address index               *)
(* (core/tile_manager.py), the action completion predicate                 *)
(* (core/agent_action.py), the executor's path search and expiry cleanup   *)
(* (agents/executor.py), the long term memory (memory/long_term_memory.py) *)
(* and the ranked retrieval (agents/retrieval.py).                         *)
(*                                                                         *)
(* Times are integers counting ticks; a second has TicksPerSecond ticks    *)
(* (the sub-second part stands for datetime's microsecond field).          *)
(* Python's None is NoneInt where a number is expected and NoneStr where   *)
(* a string is expected.                                                   *)
(***************************************************************************)
EXTENDS Integers, Sequences, FiniteSets, TLC

VARIABLES
    width, height,      \* TileManager.width, TileManager.height
    tiles,              \* TileManager.tiles: coordinate -> Tile
    address_index,      \* TileManager._address_index
    addr_index_dirty,   \* TileManager._addr_index_dirty
    current_time,       \* World.current_time, as ShortTermMemory.current_time follows it
    position,           \* Agent.position
    action,             \* Agent.short_term_memory.action
    agents,             \* World.agents, by name, in the order they were added
    other_position,     \* Agent.position of the other agents of the world
    stm_current_time,   \* ShortTermMemory.current_time of each agent
    turn,               \* main.py: which agent of the list the tick loop is at (0: none yet)
    clock,              \* what datetime.now() returns
    node_sequences,     \* LongTermMemory.node_sequences: type -> nodes, newest first
    node_counter,       \* LongTermMemory.node_counter
    keyword_to_event,   \* LongTermMemory.keyword_to_event: key -> node ids, newest first
    keyword_to_thought, \* LongTermMemory.keyword_to_thought
    keyword_to_chat,    \* LongTermMemory.keyword_to_chat
    keyword_strength_event,   \* LongTermMemory.keyword_strength_event
    keyword_strength_thought, \* LongTermMemory.keyword_strength_thought
    op,                 \* the operation that ran last
    args,               \* its arguments
    ret,                \* its return value
    prev_op,            \* the operation that ran before it
    steps               \* how many operations that may change the state have run

tmVars    == <<width, height, tiles, address_index, addr_index_dirty>>
agentVars == <<position, action, agents, other_position, stm_current_time, turn>>
callVars  == <<op, args, ret, prev_op>>
memVars   == <<node_sequences, node_counter, keyword_to_event, keyword_to_thought,
               keyword_to_chat, keyword_strength_event, keyword_strength_thought>>
vars      == <<width, height, tiles, address_index, addr_index_dirty,
               current_time, position, action, agents, other_position,
               stm_current_time, turn, clock,
               node_sequences, node_counter, keyword_to_event, keyword_to_thought,
               keyword_to_chat, keyword_strength_event, keyword_strength_thought,
               op, args, ret, prev_op, steps>>

------------------------------------------------------------------------------
(* Values *)

NoneInt == -1
NoneStr == "<None>"

\* Agent.name of the agent whose position, action and memory the model holds
AgentName == "Tom"

\* bounds of the model
TicksPerSecond == 2
MaxStartMinute == 1
MaxQueryMinute == 12

Second == TicksPerSecond
Minute == 60 * Second

\* datetime.second and datetime.replace(second=0, microsecond=0)
SecondOf(t) == (t \div Second) % 60
ReplaceSecondMicro0(t) == (t \div Minute) * Minute

\* timedelta(minutes=m)
Minutes(m) == m * Minute

Range(seq) == { seq[i] : i \in DOMAIN seq }
NoDuplicates(seq) == Cardinality(Range(seq)) = Len(seq)

\* the record of the calls: nothing has run / operation o ran with arguments a
\* and returned r
NoCallYet ==
    op = "init" /\ args = <<>> /\ ret = NoneInt /\ prev_op = "init" /\ steps = 0

Called(o, a, r) ==
    op' = o /\ args' = a /\ ret' = r /\ prev_op' = op

\* how a call of the tile grid ends: it returns a value, or an exception
\* leaves it
Returned(v) == [raises |-> NoneStr, value |-> v]
Raised(e)   == [raises |-> e, value |-> NoneStr]

ValueError == "ValueError"

------------------------------------------------------------------------------
(* core/agent_action.py *)

Event(s, p, o, d) == [subject |-> s, predicate |-> p, object |-> o, description |-> d]

DefaultEvent == Event("", NoneStr, NoneStr, "")

\* no coordinate
NoneCoord == <<NoneInt, NoneInt>>

\* An address string, by what the executor reads of it: its parts between
\* the colons, the token "<waiting>" or "<random>" it holds (if any), and the
\* coordinates int() reads after "<waiting>" (NoneCoord when they cannot be
\* read).  The empty string has no part and no token; None has the token
\* NoneStr.
Address(parts) == [parts |-> parts, token |-> "", at |-> NoneCoord]
WaitingAddress(at) == [parts |-> <<"<waiting>">>, token |-> "<waiting>", at |-> at]
RandomAddress == [parts |-> <<"<random>">>, token |-> "<random>", at |-> NoneCoord]
NoneAddress == [parts |-> <<>>, token |-> NoneStr, at |-> NoneCoord]

\* action.address or ""
AddressOrEmpty(a) == IF a = NoneAddress THEN Address(<<>>) ELSE a

ChatInteraction == [with_whom |-> NoneStr, chat_log |-> <<>>, buffer |-> <<>>,
                    end_time |-> NoneInt]

PathPlan == [path |-> <<>>, is_set |-> FALSE]

AgentAction == [address |-> NoneAddress, start_time |-> NoneInt, duration |-> NoneInt,
                description |-> NoneStr, event |-> DefaultEvent,
                chat |-> ChatInteraction, path |-> PathPlan, subtasks |-> <<>>]

\* Python truthiness of an Optional[str]
Truthy(s) == s # NoneStr /\ s # ""

\* get_end_time adding the minute whatever the seconds field holds
get_end_time_AlwaysRoundUp(a) ==
    IF a.start_time = NoneInt \/ a.duration = NoneInt
    THEN NoneInt
    ELSE ReplaceSecondMicro0(a.start_time) + Minutes(1) + Minutes(a.duration)

get_end_time(a) ==
    IF a.start_time = NoneInt \/ a.duration = NoneInt
    THEN NoneInt
    ELSE LET clean_start == ReplaceSecondMicro0(a.start_time)
             rounded == IF SecondOf(a.start_time) > 0
                        THEN clean_start + Minutes(1)
                        ELSE clean_start
         IN  rounded + Minutes(a.duration)

\* is_chat_finished falling back to the generic end time while the chat timer is unset
is_chat_finished_FallsBack(a, now) ==
    LET end_time == IF Truthy(a.chat.with_whom) /\ a.chat.end_time # NoneInt
                    THEN a.chat.end_time
                    ELSE get_end_time(a)
    IN  IF end_time = NoneInt THEN FALSE ELSE now >= end_time

is_chat_finished(a, now) ==
    LET end_time == IF Truthy(a.chat.with_whom) THEN a.chat.end_time
                    ELSE get_end_time(a)
    IN  IF end_time = NoneInt THEN FALSE ELSE now >= end_time

------------------------------------------------------------------------------
(* core/tile.py, core/tile_manager.py *)

\* the grid of the repository's tests: TileManager(2, 2, "world")
SmallGrid == 2
WorldName == "world"

\* bound of the model: how many TileManager operations one behaviour runs
MaxTileOps == 4

Sectors == {"S1", "S2"}
Arenas  == {"A1"}
Objects == {"O1"}

Tile == [sector |-> NoneStr, arena |-> NoneStr, game_object |-> NoneStr,
         collision |-> FALSE, events |-> <<>>]

\* TileManager.__init__: width x height tiles, no attribute set, the index
\* empty and dirty
Coords(w, h) == (0..(w - 1)) \X (0..(h - 1))

TileManagerInit(w, h) ==
    /\ width = w /\ height = h
    /\ tiles = [c \in Coords(w, h) |-> Tile]
    /\ address_index = <<>>
    /\ addr_index_dirty = TRUE

is_within_bounds(x, y) == 0 <= x /\ x < width /\ 0 <= y /\ y < height

\* the order of "for x in range(width): for y in range(height)"
ScanOrder(w, h) == [i \in 1..(w * h) |-> <<(i - 1) \div h, (i - 1) % h>>]

\* the keys _rebuild_address_index files a tile under: the strings
\* "w:sec", "w:sec:arn", "w:sec:arn:obj" as the sequences of their parts
\* (no name of the model holds a colon)
IndexKeys(t) ==
    (IF Truthy(t.sector) THEN {<<WorldName, t.sector>>} ELSE {})
    \cup (IF Truthy(t.sector) /\ Truthy(t.arena)
          THEN {<<WorldName, t.sector, t.arena>>} ELSE {})
    \cup (IF Truthy(t.sector) /\ Truthy(t.arena) /\ Truthy(t.game_object)
          THEN {<<WorldName, t.sector, t.arena, t.game_object>>} ELSE {})

Indexed(ts, c, key) == ~ts[c].collision /\ key \in IndexKeys(ts[c])

_rebuild_address_index(ts, w, h) ==
    LET keys == UNION { IF ts[c].collision THEN {} ELSE IndexKeys(ts[c]) : c \in DOMAIN ts }
    IN  [key \in keys |-> SelectSeq(ScanOrder(w, h), LAMBDA c : Indexed(ts, c, key))]

\* dict.get(address, [])
IndexGet(idx, address) == IF address \in DOMAIN idx THEN idx[address] ELSE <<>>

\* set_sector forgetting to invalidate the index
set_sector_KeepsIndex(x, y, sector) ==
    /\ is_within_bounds(x, y)
    /\ tiles' = [tiles EXCEPT ![<<x, y>>].sector = sector]
    /\ Called("set_sector", <<x, y, sector>>, NoneInt)
    /\ UNCHANGED <<width, height, address_index, addr_index_dirty>>

set_sector(x, y, sector) ==
    /\ is_within_bounds(x, y)
    /\ tiles' = [tiles EXCEPT ![<<x, y>>].sector = sector]
    /\ addr_index_dirty' = TRUE
    /\ Called("set_sector", <<x, y, sector>>, NoneInt)
    /\ UNCHANGED <<width, height, address_index>>

set_arena(x, y, arena) ==
    /\ is_within_bounds(x, y)
    /\ tiles' = [tiles EXCEPT ![<<x, y>>].arena = arena]
    /\ addr_index_dirty' = TRUE
    /\ Called("set_arena", <<x, y, arena>>, NoneInt)
    /\ UNCHANGED <<width, height, address_index>>

set_game_object(x, y, game_object) ==
    /\ is_within_bounds(x, y)
    /\ tiles' = [tiles EXCEPT ![<<x, y>>].game_object = game_object]
    /\ addr_index_dirty' = TRUE
    /\ Called("set_game_object", <<x, y, game_object>>, NoneInt)
    /\ UNCHANGED <<width, height, address_index>>

\* set_collision leaves the dirty flag alone
set_collision(x, y, collision) ==
    /\ is_within_bounds(x, y)
    /\ tiles' = [tiles EXCEPT ![<<x, y>>].collision = collision]
    /\ Called("set_collision", <<x, y, collision>>, NoneInt)
    /\ UNCHANGED <<width, height, address_index, addr_index_dirty>>

find_positions_by_address(address) ==
    /\ address_index' = IF addr_index_dirty
                        THEN _rebuild_address_index(tiles, width, height)
                        ELSE address_index
    /\ addr_index_dirty' = FALSE
    /\ Called("find_positions_by_address", <<address>>, IndexGet(address_index', address))
    /\ UNCHANGED <<width, height, tiles>>

------------------------------------------------------------------------------
(* memory/long_term_memory.py *)

\* timedelta(days=d)
Days(d) == d * 24 * 60 * Minute

\* the days a thought lives
ThoughtDays == 30

NodeTypes == {"event", "thought", "chat"}

\* str.lower() on the strings of the model
LowerTable == [s \in {"Bread", "Tom", "TOM", "IS", "Tom is Idle", "Waiting", "Chat With"} |->
                 CASE s = "Bread" -> "bread" [] s = "Tom" -> "tom" [] s = "TOM" -> "tom"
                   [] s = "IS" -> "is" [] s = "Tom is Idle" -> "tom is idle"
                   [] s = "Waiting" -> "waiting" [] s = "Chat With" -> "chat with"]
\* a str.lower that leaves the letters as written
Lower_AsWritten(s) == s

Lower(s) == IF s \in DOMAIN LowerTable THEN LowerTable[s] ELSE s

\* LongTermMemory.__init__
LongTermMemoryInit ==
    /\ node_sequences = [t \in NodeTypes |-> <<>>]
    /\ node_counter = 0
    /\ keyword_to_event = <<>>
    /\ keyword_to_thought = <<>>
    /\ keyword_to_chat = <<>>
    /\ keyword_strength_event = <<>>
    /\ keyword_strength_thought = <<>>

\* MemoryNode.__init__; node_id n stands for the string "node_n"
MemoryNode(node_id, node_type, created, relevance, expiration, keywords, event, embedding) ==
    [node_id |-> node_id, node_type |-> node_type, created |-> created,
     last_accessed |-> created, relevance |-> relevance, expiration |-> expiration,
     keywords |-> keywords, embedding |-> embedding, event |-> event]

\* MemoryNode.is_expired at clock value now
is_expired(node, now) == node.expiration # NoneInt /\ now > node.expiration

\* _generate_node_id handing out the same number to every chat node
_generate_node_id_ChatShares(counter, node_type) ==
    IF node_type = "chat" THEN counter ELSE counter + 1

\* _generate_node_id: the counter after the call, which is the id's number
_generate_node_id(counter, node_type) == counter + 1

\* dict.get(key, default)
DictGet(d, key, default) == IF key \in DOMAIN d THEN d[key] ELSE default

\* d[key] = value
DictSet(d, key, value) ==
    [k \in DOMAIN d \cup {key} |-> IF k = key THEN value ELSE d[k]]

\* "for keyword in keywords: index.setdefault(keyword.lower(), []).insert(0, node)"
RECURSIVE InsertUnderKeywords(_, _, _)
InsertUnderKeywords(index, keywords, node_id) ==
    IF keywords = {} THEN index
    ELSE LET keyword == CHOOSE k \in keywords : TRUE
             key == Lower(keyword)
         IN  InsertUnderKeywords(DictSet(index, key, <<node_id>> \o DictGet(index, key, <<>>)),
                                 keywords \ {keyword}, node_id)

\* "for keyword in keywords: strength[key] = strength.get(key, 1) + 1"
RECURSIVE StrengthenKeywords(_, _)
StrengthenKeywords(strength, keywords) ==
    IF keywords = {} THEN strength
    ELSE LET keyword == CHOOSE k \in keywords : TRUE
             key == Lower(keyword)
         IN  StrengthenKeywords(DictSet(strength, key, DictGet(strength, key, 1) + 1),
                                keywords \ {keyword})

\* f"{event.predicate} {event.object}" != "is idle"
NotIsIdle(event) == ~(event.predicate = "is" /\ event.object = "idle")

\* add_memory_node: the node goes to the head of its type's sequence
add_memory_node(node) ==
    /\ node_counter' = node.node_id
    /\ node_sequences' = [node_sequences EXCEPT ![node.node_type] = <<node>> \o @]

\* what add_event does to the store
add_event_stores(event, relevance, keywords, embedding) ==
    LET node == MemoryNode(_generate_node_id(node_counter, "event"), "event", clock,
                           relevance, NoneInt, keywords, event, embedding)
    IN  /\ add_memory_node(node)
        /\ keyword_to_event' = InsertUnderKeywords(keyword_to_event, keywords, node.node_id)
        /\ keyword_strength_event' =
              IF NotIsIdle(event) THEN StrengthenKeywords(keyword_strength_event, keywords)
              ELSE keyword_strength_event
        /\ UNCHANGED <<keyword_to_thought, keyword_to_chat, keyword_strength_thought>>

add_event(event, relevance, keywords, embedding) ==
    /\ add_event_stores(event, relevance, keywords, embedding)
    /\ Called("add_event", <<event, relevance, keywords, embedding>>, node_counter')
    /\ UNCHANGED clock

\* add_thought reads the clock twice: for the expiration, then (in
\* add_memory_node) for created; the clock may have moved on by jitter
add_thought(event, relevance, keywords, embedding, jitter) ==
    LET expiration == clock + Days(ThoughtDays)
        node == MemoryNode(_generate_node_id(node_counter, "thought"), "thought",
                           clock + jitter, relevance, expiration, keywords, event, embedding)
    IN  /\ clock' = clock + jitter
        /\ add_memory_node(node)
        /\ keyword_to_thought' = InsertUnderKeywords(keyword_to_thought, keywords, node.node_id)
        /\ keyword_strength_thought' =
              IF NotIsIdle(event) THEN StrengthenKeywords(keyword_strength_thought, keywords)
              ELSE keyword_strength_thought
        /\ Called("add_thought", <<event, relevance, keywords, embedding>>, node.node_id)
        /\ UNCHANGED <<keyword_to_event, keyword_to_chat, keyword_strength_event>>

add_chat(event, relevance, keywords, embedding) ==
    LET node == MemoryNode(_generate_node_id(node_counter, "chat"), "chat", clock,
                           relevance, NoneInt, keywords, event, embedding)
    IN  /\ add_memory_node(node)
        /\ keyword_to_chat' = InsertUnderKeywords(keyword_to_chat, keywords, node.node_id)
        /\ Called("add_chat", <<event, relevance, keywords, embedding>>, node.node_id)
        /\ UNCHANGED <<clock, keyword_to_event, keyword_to_thought,
                       keyword_strength_event, keyword_strength_thought>>

\* every node of the store, and the node a reference (an id) stands for
AllNodes == UNION { Range(node_sequences[t]) : t \in NodeTypes }
NodeById(id) == CHOOSE n \in AllNodes : n.node_id = id
NodeIds == { n.node_id : n \in AllNodes }

\* the candidates of a lookup that takes the keys as they are written
KeywordCandidates_CaseSensitive(index, event) ==
    UNION { Range(DictGet(index, key, <<>>)) :
              key \in { k \in {event.subject, event.predicate, event.object} : Truthy(k) } }

\* "for key in [subject, predicate, object]: if not key: continue;
\*  candidates.update(index.get(key.lower(), []))": a set of nodes
KeywordCandidates(index, event) ==
    UNION { Range(DictGet(index, Lower(key), <<>>)) :
              key \in { k \in {event.subject, event.predicate, event.object} : Truthy(k) } }

\* the lists a set iterates to: every member once, in any order
Orderings(S) ==
    { order \in [1..Cardinality(S) -> S] : \A i, j \in 1..Cardinality(S) :
                                               order[i] = order[j] => i = j }

\* a lookup that prunes the expired nodes from the type sequences it meets
retrieve_relevant_DropsExpired(index, event, name) ==
    /\ \E order \in Orderings({ id \in KeywordCandidates(index, event) :
                                   ~is_expired(NodeById(id), clock) }) :
          Called(name, <<event>>, order)
    /\ node_sequences' = [t \in NodeTypes |->
                             SelectSeq(node_sequences[t], LAMBDA n : ~is_expired(n, clock))]
    /\ UNCHANGED <<clock, node_counter, keyword_to_event, keyword_to_thought,
                   keyword_to_chat, keyword_strength_event, keyword_strength_thought>>

\* "[node for node in candidates if not node.is_expired()]", as node ids
retrieve_relevant(index, event, name) ==
    /\ \E order \in Orderings({ id \in KeywordCandidates(index, event) :
                                   ~is_expired(NodeById(id), clock) }) :
          Called(name, <<event>>, order)
    /\ UNCHANGED <<clock, memVars>>

retrieve_relevant_events(event) ==
    retrieve_relevant(keyword_to_event, event, "retrieve_relevant_events")

retrieve_relevant_thoughts(event) ==
    retrieve_relevant(keyword_to_thought, event, "retrieve_relevant_thoughts")

\* Retrieval.retrieve_context over the events of the perceived nodes: for
\* each, the two lookups joined into one list without repeated ids, under
\* the event's description; nothing is written
retrieve_context(perceived) ==
    LET fresh(index, event) == { id \in KeywordCandidates(index, event) :
                                    ~is_expired(NodeById(id), clock) }
        context(event) == { related_nodes \o related_thoughts :
                              related_nodes \in Orderings(fresh(keyword_to_event, event)),
                              related_thoughts \in Orderings(fresh(keyword_to_thought, event)) }
        descriptions == { event.description : event \in Range(perceived) }
    IN  /\ \E result \in [descriptions -> UNION { context(event) : event \in Range(perceived) }] :
              /\ \A i \in DOMAIN perceived :
                    (\A j \in DOMAIN perceived :
                        perceived[j].description = perceived[i].description => j <= i)
                       => result[perceived[i].description] \in context(perceived[i])
              /\ Called("retrieve_context", <<perceived>>, result)
        /\ UNCHANGED <<clock, memVars>>

------------------------------------------------------------------------------
(* memory/short_term_memory.py weights, agents/retrieval.py *)

\* ShortTermMemory.__init__: recency_decay = 0.99, in hundredths, and the
\* three weights
recency_decay     == 99
recency_weight    == 1
importance_weight == 1
relevance_weight  == 1

\* retrieve_relevant_nodes: max_results = 30
max_results == 30

\* "idle" in text, for the lowercase texts of the model
InText_idle(text) == text \in {"idle", "tom is idle"}

\* _is_non_idle: "idle" not in node.event.description.lower()
_is_non_idle(node) == ~InText_idle(Lower(node.event.description))

\* list.sort(key=created, reverse=True): stable, equal keys keep their order
RECURSIVE SortByCreatedDesc(_)
SortByCreatedDesc(nodes) ==
    IF nodes = <<>> THEN <<>>
    ELSE LET front  == SortByCreatedDesc(SubSeq(nodes, 1, Len(nodes) - 1))
             last   == nodes[Len(nodes)]
             before == Cardinality({ i \in 1..Len(front) : front[i].created >= last.created })
         IN  SubSeq(front, 1, before) \o <<last>> \o SubSeq(front, before + 1, Len(front))

\* the candidates: events then thoughts, not expired, not idle, newest first
Candidates ==
    SortByCreatedDesc(
        SelectSeq(node_sequences["event"] \o node_sequences["thought"],
                  LAMBDA n : ~is_expired(n, clock) /\ _is_non_idle(n)))

RECURSIVE Power(_, _)
Power(b, e) == IF e = 0 THEN 1 ELSE b * Power(b, e - 1)

\* _extract_recency: decay ** idx, all scaled by 100 ** len(nodes)
_extract_recency(nodes) ==
    [id \in { n.node_id : n \in Range(nodes) } |->
        LET idx == (CHOOSE i \in 1..Len(nodes) : nodes[i].node_id = id) - 1
        IN  Power(recency_decay, idx) * Power(100, Len(nodes) - idx)]

\* _extract_importance
_extract_importance(nodes) ==
    [id \in { n.node_id : n \in Range(nodes) } |->
        (CHOOSE n \in Range(nodes) : n.node_id = id).relevance]

\* _cosine_similarity, in halves: the embeddings of the model are unit
\* vectors, two different ones 60 degrees apart
_cosine_similarity(a, b) == IF a = b THEN 2 ELSE 1

\* get_embedding(text): a hash of the text
get_embedding(text) == IF text = "Tom eats bread" THEN 0 ELSE 1

\* _extract_relevance: only the nodes that have an embedding
_extract_relevance(nodes, focus_embedding) ==
    [id \in { n.node_id : n \in { m \in Range(nodes) : m.embedding # NoneInt } } |->
        _cosine_similarity((CHOOSE n \in Range(nodes) : n.node_id = id).embedding,
                           focus_embedding)]

\* _normalize_dict that divides by the maximum without taking the minimum off
_normalize_dict_NoShift(values) ==
    IF DOMAIN values = {} THEN values
    ELSE LET max_val == CHOOSE v \in Range(values) : \A u \in Range(values) : v >= u
         IN  [k \in DOMAIN values |-> <<values[k], max_val + 1>>]

\* _normalize_dict to [0, 1], each value the fraction <<numerator, denominator>>:
\* the midpoint 1/2 for a flat range
_normalize_dict(values) ==
    IF DOMAIN values = {} THEN values
    ELSE LET min_val == CHOOSE v \in Range(values) : \A u \in Range(values) : v <= u
             max_val == CHOOSE v \in Range(values) : \A u \in Range(values) : v >= u
         IN  IF max_val = min_val THEN [k \in DOMAIN values |-> <<1, 2>>]
             ELSE [k \in DOMAIN values |-> <<values[k] - min_val, max_val - min_val>>]

\* the denominator the values of a normalised dict share
Denominator(normalized) ==
    IF DOMAIN normalized = {} THEN 1
    ELSE (CHOOSE f \in Range(normalized) : TRUE)[2]

\* dict.get(node_id, 0.0) of a normalised dict, as a numerator
Numerator(normalized, id) == IF id \in DOMAIN normalized THEN normalized[id][1] ELSE 0

\* combined_score, every score over the one denominator
\* Denominator(recency) * Denominator(importance) * Denominator(relevance)
combined_score(nodes, description) ==
    LET recency    == _normalize_dict(_extract_recency(nodes))
        importance == _normalize_dict(_extract_importance(nodes))
        relevance  == _normalize_dict(_extract_relevance(nodes, get_embedding(description)))
        all_ids    == DOMAIN recency \cup DOMAIN importance \cup DOMAIN relevance
    IN  [id \in all_ids |->
            recency_weight * Numerator(recency, id)
                * Denominator(importance) * Denominator(relevance)
            + importance_weight * Numerator(importance, id)
                * Denominator(recency) * Denominator(relevance)
            + relevance_weight * Numerator(relevance, id)
                * Denominator(recency) * Denominator(importance)]

\* _top_n that keeps the n smallest scores
_top_n_Smallest(d, n) ==
    IF DOMAIN d = {} \/ n <= 0 THEN {{}}
    ELSE IF Cardinality(DOMAIN d) <= n THEN {DOMAIN d}
    ELSE { top \in SUBSET DOMAIN d :
             /\ Cardinality(top) = n
             /\ \A a \in top, b \in DOMAIN d \ top : d[a] <= d[b] }

\* _top_n: what heapq.nlargest(n, d.items(), key=score) may return as a set;
\* equal scores fall in the order the set of ids iterates, which is any order
_top_n(d, n) ==
    IF DOMAIN d = {} \/ n <= 0 THEN {{}}
    ELSE IF Cardinality(DOMAIN d) <= n THEN {DOMAIN d}
    ELSE { top \in SUBSET DOMAIN d :
             /\ Cardinality(top) = n
             /\ \A a \in top, b \in DOMAIN d \ top : d[a] >= d[b] }

\* retrieve_relevant_nodes stamping every stored node, returned or not
retrieve_relevant_nodes_StampsAll(focal_descriptions) ==
    LET all_nodes == Candidates
        ts == IF current_time # NoneInt THEN current_time ELSE clock
        tops == [description \in Range(focal_descriptions) |->
                   _top_n(combined_score(all_nodes, description), max_results)]
    IN  \E top_ids \in [Range(focal_descriptions) -> UNION Range(tops)] :
          /\ \A description \in Range(focal_descriptions) :
                top_ids[description] \in tops[description]
          /\ LET top_nodes(description) ==
                     SelectSeq(all_nodes, LAMBDA n : n.node_id \in top_ids[description])
                 stamped == { n.node_id : n \in AllNodes }
             IN  /\ node_sequences' =
                       [t \in NodeTypes |->
                          [i \in 1..Len(node_sequences[t]) |->
                             IF node_sequences[t][i].node_id \in stamped
                             THEN [node_sequences[t][i] EXCEPT !.last_accessed = ts]
                             ELSE node_sequences[t][i]]]
                 /\ Called("retrieve_relevant_nodes", <<focal_descriptions>>,
                           [description \in Range(focal_descriptions) |->
                              [i \in 1..Len(top_nodes(description)) |->
                                 top_nodes(description)[i].node_id]])
          /\ UNCHANGED <<clock, node_counter, keyword_to_event, keyword_to_thought,
                         keyword_to_chat, keyword_strength_event, keyword_strength_thought>>

\* retrieve_relevant_nodes: the result maps each description to the ids of
\* its nodes, in the candidates' order; the nodes returned are stamped
retrieve_relevant_nodes(focal_descriptions) ==
    LET all_nodes == Candidates
        ts == IF current_time # NoneInt THEN current_time ELSE clock
        tops == [description \in Range(focal_descriptions) |->
                   _top_n(combined_score(all_nodes, description), max_results)]
    IN  \E top_ids \in [Range(focal_descriptions) -> UNION Range(tops)] :
          /\ \A description \in Range(focal_descriptions) :
                top_ids[description] \in tops[description]
          /\ LET top_nodes(description) ==
                     SelectSeq(all_nodes, LAMBDA n : n.node_id \in top_ids[description])
                 stamped == UNION { top_ids[description] : description \in Range(focal_descriptions) }
             IN  /\ node_sequences' =
                       [t \in NodeTypes |->
                          [i \in 1..Len(node_sequences[t]) |->
                             IF node_sequences[t][i].node_id \in stamped
                             THEN [node_sequences[t][i] EXCEPT !.last_accessed = ts]
                             ELSE node_sequences[t][i]]]
                 /\ Called("retrieve_relevant_nodes", <<focal_descriptions>>,
                           [description \in Range(focal_descriptions) |->
                              [i \in 1..Len(top_nodes(description)) |->
                                 top_nodes(description)[i].node_id]])
          /\ UNCHANGED <<clock, node_counter, keyword_to_event, keyword_to_thought,
                         keyword_to_chat, keyword_strength_event, keyword_strength_thought>>

------------------------------------------------------------------------------
(* agents/executor.py: Executor._find_path *)

\* came_from[start] = None
\* (tm.get_tile(x, y).game_object or "").lower()
TerrainOf(c) == Lower(IF Truthy(tiles[c].game_object) THEN tiles[c].game_object ELSE "")

\* move_cost blind to the terrain
move_cost_Flat(c) == 10

\* move_cost, in tenths: 0.5 for gravel, path and road, 1.2 for bush, else 1.0
\* (sums of tenths differ by at least a tenth, far above float rounding)
move_cost(c) ==
    IF TerrainOf(c) \in {"gravel", "path", "road"} THEN 5
    ELSE IF TerrainOf(c) \in {"bush"} THEN 12
    ELSE 10

\* neighbors that does not look at the collision flag
neighbors_ThroughWalls(c) ==
    { n \in { <<c[1] + 1, c[2]>>, <<c[1] - 1, c[2]>>, <<c[1], c[2] + 1>>, <<c[1], c[2] - 1>> } :
        is_within_bounds(n[1], n[2]) }

\* neighbors: the 4-neighbours in bounds and not collidable
neighbors(c) ==
    { n \in { <<c[1] + 1, c[2]>>, <<c[1] - 1, c[2]>>, <<c[1], c[2] + 1>>, <<c[1], c[2] - 1>> } :
        is_within_bounds(n[1], n[2]) /\ ~tiles[n].collision }

\* the order of the heap's entries (cost, (x, y)): Python's tuple order
HeapLeq(e, f) ==
    \/ e[1] < f[1]
    \/ e[1] = f[1] /\ e[2][1] < f[2][1]
    \/ e[1] = f[1] /\ e[2][1] = f[2][1] /\ e[2][2] <= f[2][2]

\* heapq.heappop: the least entry (no entry is pushed twice: a push needs a
\* strictly lower cost for its coordinate)
HeapTop(pq) == CHOOSE e \in pq : \A f \in pq : HeapLeq(e, f)

\* the "while pq" loop, one pop per call; the result is came_from
RECURSIVE SearchLoop(_, _, _, _)
SearchLoop(pq, came_from, g_cost, goal) ==
    IF pq = {} THEN came_from
    ELSE LET top  == HeapTop(pq)
             cost == top[1]
             cur  == top[2]
             rest == pq \ {top}
         IN  IF cur = goal THEN came_from
             ELSE IF cost > g_cost[cur] THEN SearchLoop(rest, came_from, g_cost, goal)
             ELSE LET better == { n \in neighbors(cur) :
                                    \/ n \notin DOMAIN g_cost
                                    \/ cost + move_cost(n) < g_cost[n] }
                  IN  SearchLoop(rest \cup { <<cost + move_cost(n), n>> : n \in better },
                                 [c \in DOMAIN came_from \cup better |->
                                    IF c \in better THEN cur ELSE came_from[c]],
                                 [c \in DOMAIN g_cost \cup better |->
                                    IF c \in better THEN cost + move_cost(c) ELSE g_cost[c]],
                                 goal)

\* "while cur is not None: path.append(cur); cur = came_from[cur]", reversed
RECURSIVE WalkBack(_, _)
WalkBack(came_from, cur) ==
    IF cur = NoneCoord THEN <<>> ELSE WalkBack(came_from, came_from[cur]) \o <<cur>>

\* _find_path that leaves the start out of what it returns
_find_path_WithoutStart(start, goal) ==
    IF start = goal THEN <<>>
    ELSE LET came_from == SearchLoop({ <<0, start>> }, [c \in {start} |-> NoneCoord],
                                     [c \in {start} |-> 0], goal)
         IN  IF goal \notin DOMAIN came_from THEN <<>> ELSE Tail(WalkBack(came_from, goal))

\* _find_path that answers start and goal when the search did not reach the goal
_find_path_JumpsWhenLost(start, goal) ==
    IF start = goal THEN <<start>>
    ELSE LET came_from == SearchLoop({ <<0, start>> }, [c \in {start} |-> NoneCoord],
                                     [c \in {start} |-> 0], goal)
         IN  IF goal \notin DOMAIN came_from THEN <<start, goal>>
             ELSE WalkBack(came_from, goal)

\* _find_path that steps from start straight onto the goal
_find_path_StraightToGoal(start, goal) ==
    IF start = goal THEN <<start>> ELSE <<start, goal>>

_find_path(start, goal) ==
    IF start = goal THEN <<start>>
    ELSE LET came_from == SearchLoop({ <<0, start>> }, [c \in {start} |-> NoneCoord],
                                     [c \in {start} |-> 0], goal)
         IN  IF goal \notin DOMAIN came_from THEN <<start>> ELSE WalkBack(came_from, goal)

------------------------------------------------------------------------------
(* core/tile.py events, core/world.py clock, Executor.cleanup_expired *)

\* Tile.add_event: list.append, whether or not an equal event is there
Tile_add_event(events, event) == Append(events, event)

\* Tile.remove_event: list.remove of the first equal event, if there is one
Tile_remove_event(events, event) ==
    IF event \in Range(events)
    THEN LET first == CHOOSE i \in 1..Len(events) :
                         events[i] = event /\ \A j \in 1..(i - 1) : events[j] # event
         IN  SubSeq(events, 1, first - 1) \o SubSeq(events, first + 1, Len(events))
    ELSE events

\* get_tile without the bounds check: a negative index counts from the end
get_tile_WrapsNegative(x, y) ==
    IF x >= width \/ y >= height \/ x < 0 - width \/ y < 0 - height
    THEN Raised(ValueError)
    ELSE Returned(tiles[<<x % width, y % height>>])

\* TileManager.get_tile: the tile, or ValueError out of bounds
get_tile(x, y) ==
    IF ~is_within_bounds(x, y) THEN Raised(ValueError) ELSE Returned(tiles[<<x, y>>])

\* TileManager.is_collidable
is_collidable(x, y) ==
    LET t == get_tile(x, y)
    IN  IF t.raises # NoneStr THEN t ELSE Returned(t.value.collision)

\* TileManager.add_event_to_tile
add_event_to_tile(x, y, event) ==
    LET t == get_tile(x, y)
    IN  /\ tiles' = IF t.raises # NoneStr THEN tiles
                    ELSE [tiles EXCEPT ![<<x, y>>].events = Tile_add_event(@, event)]
        /\ Called("add_event_to_tile", <<x, y, event>>,
                  IF t.raises # NoneStr THEN t ELSE Returned(NoneStr))
        /\ UNCHANGED <<width, height, address_index, addr_index_dirty>>

\* TileManager.remove_event_from_tile
remove_event_from_tile(x, y, event) ==
    LET t == get_tile(x, y)
    IN  /\ tiles' = IF t.raises # NoneStr THEN tiles
                    ELSE [tiles EXCEPT ![<<x, y>>].events = Tile_remove_event(@, event)]
        /\ Called("remove_event_from_tile", <<x, y, event>>,
                  IF t.raises # NoneStr THEN t ELSE Returned(NoneStr))
        /\ UNCHANGED <<width, height, address_index, addr_index_dirty>>

\* World.advance_time: the agents' short term memory follows the world's time
advance_time(minutes) ==
    /\ current_time' = current_time + Minutes(minutes)
    /\ stm_current_time' = [n \in DOMAIN stm_current_time |->
                                IF n \in Range(agents) THEN current_time'
                                ELSE stm_current_time[n]]
    /\ Called("advance_time", <<WorldName, minutes>>, NoneStr)

\* cleanup_expired that forgets the chat log
cleanup_expired_KeepsChatLog ==
    IF ~is_chat_finished(action, current_time)
    THEN /\ Called("cleanup_expired", <<>>, NoneStr)
         /\ UNCHANGED <<tmVars, agentVars>>
    ELSE /\ tiles' = [tiles EXCEPT ![position].events = Tile_remove_event(@, action.event)]
         /\ action' = [action EXCEPT !.path.path = <<>>, !.path.is_set = FALSE,
                                     !.chat.with_whom = NoneStr, !.chat.end_time = NoneInt]
         /\ Called("cleanup_expired", <<>>, "cleaned")
         /\ UNCHANGED <<width, height, address_index, addr_index_dirty, position,
                        agents, other_position, stm_current_time, turn>>

\* Executor.cleanup_expired at the world's time; the agent stands in bounds
cleanup_expired ==
    IF ~is_chat_finished(action, current_time)
    THEN /\ Called("cleanup_expired", <<>>, NoneStr)
         /\ UNCHANGED <<tmVars, agentVars>>
    ELSE /\ tiles' = [tiles EXCEPT ![position].events = Tile_remove_event(@, action.event)]
         /\ action' = [action EXCEPT !.path.path = <<>>, !.path.is_set = FALSE,
                                     !.chat.with_whom = NoneStr, !.chat.chat_log = <<>>,
                                     !.chat.end_time = NoneInt]
         /\ Called("cleanup_expired", <<>>, "cleaned")
         /\ UNCHANGED <<width, height, address_index, addr_index_dirty, position,
                        agents, other_position, stm_current_time, turn>>

------------------------------------------------------------------------------
(* agents/executor.py: target selection, execute and arrival *)

\* Agent.vision_range
vision_range == 5

\* truthiness of the address string
AddressTruthy(a) == a.parts # <<>>

\* ":" in address
HasColon(a) == Len(a.parts) > 1

\* parts[i] if len(parts) > i else None, counting from 0
PartOrNone(a, i) == IF Len(a.parts) > i THEN a.parts[i + 1] ELSE NoneStr

\* TileManager.get_nearby_tiles_positions
get_nearby_tiles_positions(pos, radius) ==
    LET Max(a, b) == IF a > b THEN a ELSE b
        Min(a, b) == IF a < b THEN a ELSE b
    IN  { c \in Coords(width, height) :
            /\ Max(0, pos[1] - radius) <= c[1] /\ c[1] < Min(width, pos[1] + radius + 1)
            /\ Max(0, pos[2] - radius) <= c[2] /\ c[2] < Min(height, pos[2] + radius + 1) }

\* TileManager.find_positions: None is the wildcard
find_positions(sector, arena, game_object, include_collidable) ==
    SelectSeq(ScanOrder(width, height),
              LAMBDA c : /\ sector # NoneStr => tiles[c].sector = sector
                         /\ arena # NoneStr => tiles[c].arena = arena
                         /\ game_object # NoneStr => tiles[c].game_object = game_object
                         /\ include_collidable \/ ~tiles[c].collision)

\* the non-collidable tiles the agent sees
NearbyOptions(pos) ==
    { c \in get_nearby_tiles_positions(pos, vision_range) : ~tiles[c].collision }

\* the other agent the event's object names, if any
NamedAgent(event) ==
    IF Truthy(event.object) /\ event.object \in DOMAIN other_position
    THEN {event.object} ELSE {}

\* _select_target_tile gets as far as the address index
ReachesIndex(pos, act) ==
    LET address == AddressOrEmpty(act.address)
    IN  /\ address.token = ""
        /\ NamedAgent(act.event) = {}
        /\ ~(AddressTruthy(address) /\ ~HasColon(address) /\ NearbyOptions(pos) # {})

\* the candidates falling back to every free tile when no rule finds one
TargetCandidates_AnyTile(idx, act) ==
    find_positions(NoneStr, NoneStr, NoneStr, FALSE)

\* the candidates of _select_target_tile: the index, then the wildcard search
\* with collidable tiles, then sector and arena, then the sector alone
TargetCandidates(idx, act) ==
    LET address == AddressOrEmpty(act.address)
        exact   == IndexGet(idx, address.parts)
        sector  == PartOrNone(address, 1)
        arena   == PartOrNone(address, 2)
        obj     == PartOrNone(address, 3)
        wild    == IF Truthy(sector) \/ Truthy(arena) \/ Truthy(obj)
                   THEN find_positions(sector, arena, obj, TRUE) ELSE <<>>
        in_arena == IF wild = <<>> /\ Truthy(sector) /\ Truthy(arena)
                    THEN find_positions(sector, arena, NoneStr, FALSE) ELSE wild
        in_sector == IF in_arena = <<>> /\ Truthy(sector)
                     THEN find_positions(sector, NoneStr, NoneStr, FALSE) ELSE in_arena
    IN  IF exact # <<>> THEN exact ELSE in_sector

\* (p[0] - ax) ** 2 + (p[1] - ay) ** 2
SquaredDistance(p, a) == (p[1] - a[1]) * (p[1] - a[1]) + (p[2] - a[2]) * (p[2] - a[2])

\* the first candidate taken whatever its distance
NearestCandidate_First(candidates, pos) == candidates[1]

\* min(candidates, key=...): the first of the least
NearestCandidate(candidates, pos) ==
    LET i == CHOOSE i \in 1..Len(candidates) :
                /\ \A j \in 1..Len(candidates) :
                      SquaredDistance(candidates[i], pos) <= SquaredDistance(candidates[j], pos)
                /\ \A j \in 1..(i - 1) :
                      SquaredDistance(candidates[j], pos) > SquaredDistance(candidates[i], pos)
    IN  candidates[i]

\* a collidable best candidate gives way to its first free neighbour of the
\* same sector and arena, in the order right, left, down, up
StandNextTo(best) ==
    LET around == << <<best[1] + 1, best[2]>>, <<best[1] - 1, best[2]>>,
                     <<best[1], best[2] + 1>>, <<best[1], best[2] - 1>> >>
        fits == SelectSeq(around, LAMBDA n :
                    /\ is_within_bounds(n[1], n[2])
                    /\ ~tiles[n].collision
                    /\ tiles[n].sector = tiles[best].sector
                    /\ tiles[n].arena = tiles[best].arena)
    IN  IF tiles[best].collision /\ fits # <<>> THEN fits[1] ELSE best

\* _select_target_tile that asks the address before the agent the event names
_select_target_tile_AddressFirst(idx, pos, act) ==
    LET address == AddressOrEmpty(act.address)
        options == NearbyOptions(pos)
        candidates == TargetCandidates(idx, act)
    IN  IF address.token = "<waiting>"
        THEN IF /\ address.at # NoneCoord
                /\ is_within_bounds(address.at[1], address.at[2])
                /\ ~tiles[address.at].collision
             THEN {address.at} ELSE {pos}
        ELSE IF address.token = "<random>"
        THEN IF options # {} THEN options ELSE {pos}
        ELSE IF AddressTruthy(address) /\ ~HasColon(address) /\ options # {}
        THEN options
        ELSE IF candidates # <<>>
        THEN {StandNextTo(NearestCandidate(candidates, pos))}
        ELSE IF NamedAgent(act.event) # {}
        THEN {other_position[act.event.object]}
        ELSE {NoneCoord}

\* _select_target_tile: the tiles it may return (random.choice picks any
\* option), NoneCoord standing for None; idx is the address index it reads
_select_target_tile(idx, pos, act) ==
    LET address == AddressOrEmpty(act.address)
        options == NearbyOptions(pos)
    IN  IF address.token = "<waiting>"
        THEN IF /\ address.at # NoneCoord
                /\ is_within_bounds(address.at[1], address.at[2])
                /\ ~tiles[address.at].collision
             THEN {address.at} ELSE {pos}
        ELSE IF address.token = "<random>"
        THEN IF options # {} THEN options ELSE {pos}
        ELSE IF NamedAgent(act.event) # {}
        THEN {other_position[act.event.object]}
        ELSE IF AddressTruthy(address) /\ ~HasColon(address) /\ options # {}
        THEN options
        ELSE LET candidates == TargetCandidates(idx, act)
             IN  IF candidates = <<>> THEN {NoneCoord}
                 ELSE {StandNextTo(NearestCandidate(candidates, pos))}

\* _attach_event_to_current_tile that adds without looking
_attach_event_to_current_tile_Unseen(ts, pos, event) ==
    [ts EXCEPT ![pos].events = Tile_add_event(@, event)]

\* _attach_event_to_current_tile: add the event unless the tile has it
_attach_event_to_current_tile(ts, pos, event) ==
    IF event \in Range(ts[pos].events) THEN ts
    ELSE [ts EXCEPT ![pos].events = Tile_add_event(@, event)]

\* _move_event_between_tiles that leaves the event on the tile left
_move_event_between_tiles_LeavesCopy(ts, prev, curr, event) ==
    [ts EXCEPT ![curr].events = Tile_add_event(@, event)]

\* _move_event_between_tiles: remove from the tile left, add to the tile entered
_move_event_between_tiles(ts, prev, curr, event) ==
    LET removed == [ts EXCEPT ![prev].events = Tile_remove_event(@, event)]
    IN  [removed EXCEPT ![curr].events = Tile_add_event(@, event)]

\* the loop of execute over the steps it takes, on the tiles
RECURSIVE MoveAlong(_, _, _, _)
MoveAlong(ts, pos, walked, event) ==
    IF walked = <<>> THEN ts
    ELSE MoveAlong(_move_event_between_tiles(ts, pos, Head(walked), event),
                   Head(walked), Tail(walked), event)

\* the chat timer running from the action's start instead of the arrival
StartChat_FromStartTime(act, now) ==
    LET target  == IF Truthy(act.event.object) THEN act.event.object ELSE "someone"
        minutes == IF act.duration = NoneInt \/ act.duration = 0 \/ act.duration < 5
                   THEN (IF act.duration = NoneInt \/ act.duration = 0 THEN 10 ELSE 5)
                   ELSE act.duration
        half    == IF minutes \div 2 > 5 THEN minutes \div 2 ELSE 5
    IN  [act EXCEPT !.chat.with_whom = IF Truthy(@) THEN @ ELSE target,
                    !.chat.end_time = act.start_time + Minutes(minutes),
                    !.chat.buffer = DictSet(@, target, half),
                    !.description = "chatting with " \o target]

\* the chat timer _on_arrival starts
StartChat(act, now) ==
    LET target  == IF Truthy(act.event.object) THEN act.event.object ELSE "someone"
        minutes == IF act.duration = NoneInt \/ act.duration = 0 \/ act.duration < 5
                   THEN (IF act.duration = NoneInt \/ act.duration = 0 THEN 10 ELSE 5)
                   ELSE act.duration
        half    == IF minutes \div 2 > 5 THEN minutes \div 2 ELSE 5
    IN  [act EXCEPT !.chat.with_whom = IF Truthy(@) THEN @ ELSE target,
                    !.chat.end_time = now + Minutes(minutes),
                    !.chat.buffer = DictSet(@, target, half),
                    !.description = "chatting with " \o target]

\* predicate.lower() == "chat with"
IsChatWith(event) ==
    Lower(IF event.predicate = NoneStr THEN "" ELSE event.predicate) = "chat with"

\* the description of a logged subtask without its full stop
SubtaskDescription_NoFullStop(sub) == AgentName \o " " \o sub

\* the event _on_arrival logs for a subtask
SubtaskDescription(sub) == AgentName \o " " \o sub \o "."
SubtaskEvent(sub) == Event(AgentName, "does", sub, SubtaskDescription(sub))

\* _on_arrival on the action: the chat timer, then one subtask taken
_on_arrival_action(act, now) ==
    LET chatted == IF IsChatWith(act.event) /\ act.chat.end_time = NoneInt
                   THEN StartChat(act, now) ELSE act
    IN  IF chatted.subtasks # <<>>
        THEN [chatted EXCEPT !.subtasks = Tail(@)]
        ELSE chatted

\* the status execute returns after the loop
StatusAfter(act, now, steps_taken) ==
    IF IsChatWith(act.event)
    THEN IF act.chat.end_time # NoneInt /\ now < act.chat.end_time
         THEN "chatting with " \o (IF Truthy(act.chat.with_whom) THEN act.chat.with_whom
                                   ELSE "someone")
         ELSE "moving to " \o (IF Truthy(act.event.object) THEN act.event.object
                               ELSE "someone") \o " to chat"
    ELSE IF steps_taken > 0 THEN "moved " \o ToString(steps_taken) \o " step(s)"
    ELSE "at destination"

\* execute whose loop walks the whole path whatever max_steps is
ExecuteAlong_WholePath(max_steps, attached, planned, index) ==
    LET path        == planned.path.path
        steps_taken == Len(path)
        walked      == SubSeq(path, 1, steps_taken)
        rest        == SubSeq(path, steps_taken + 1, Len(path))
        here        == IF steps_taken > 0 THEN walked[steps_taken] ELSE position
        moved       == MoveAlong(attached, position, walked, planned.event)
        stepped     == [planned EXCEPT !.path.path = rest]
        arrived     == rest = <<>>
        after       == IF arrived THEN _on_arrival_action(stepped, current_time) ELSE stepped
    IN  /\ position' = here
        /\ tiles' = IF arrived
                    THEN _attach_event_to_current_tile(moved, here, planned.event)
                    ELSE moved
        /\ action' = after
        /\ address_index' = index.index
        /\ addr_index_dirty' = index.dirty
        /\ IF arrived /\ stepped.subtasks # <<>>
           THEN LET sub == Head(stepped.subtasks)
                IN  \/ add_event_stores(SubtaskEvent(sub), 5, {AgentName, "does", sub},
                                        get_embedding(SubtaskDescription(sub)))
                    \* "except Exception": the call raised before it stored
                    \/ UNCHANGED memVars
           ELSE UNCHANGED memVars
        /\ Called("execute", <<AgentName, max_steps>>,
                  StatusAfter(after, current_time, steps_taken))

\* execute from the path on: the loop, the arrival and the status; planned
\* is the action with the path it follows, index the address index after
\* target selection
ExecuteAlong(max_steps, attached, planned, index) ==
    LET path        == planned.path.path
        steps_taken == IF max_steps < Len(path) THEN max_steps ELSE Len(path)
        walked      == SubSeq(path, 1, steps_taken)
        rest        == SubSeq(path, steps_taken + 1, Len(path))
        here        == IF steps_taken > 0 THEN walked[steps_taken] ELSE position
        moved       == MoveAlong(attached, position, walked, planned.event)
        stepped     == [planned EXCEPT !.path.path = rest]
        arrived     == rest = <<>>
        after       == IF arrived THEN _on_arrival_action(stepped, current_time) ELSE stepped
    IN  /\ position' = here
        /\ tiles' = IF arrived
                    THEN _attach_event_to_current_tile(moved, here, planned.event)
                    ELSE moved
        /\ action' = after
        /\ address_index' = index.index
        /\ addr_index_dirty' = index.dirty
        /\ IF arrived /\ stepped.subtasks # <<>>
           THEN LET sub == Head(stepped.subtasks)
                IN  \/ add_event_stores(SubtaskEvent(sub), 5, {AgentName, "does", sub},
                                        get_embedding(SubtaskDescription(sub)))
                    \* "except Exception": the call raised before it stored
                    \/ UNCHANGED memVars
           ELSE UNCHANGED memVars
        /\ Called("execute", <<AgentName, max_steps>>,
                  StatusAfter(after, current_time, steps_taken))

\* Executor.execute(agent, world, max_steps) for the agent of the model
execute(max_steps) ==
    /\ stm_current_time' = [stm_current_time EXCEPT ![AgentName] = current_time]
    /\ UNCHANGED <<width, height, current_time, agents, other_position, turn, clock>>
    /\ LET attached == _attach_event_to_current_tile(tiles, position, action.event)
           same     == [index |-> address_index, dirty |-> addr_index_dirty]
           looked   == [index |-> IF addr_index_dirty
                                  THEN _rebuild_address_index(tiles, width, height)
                                  ELSE address_index,
                        dirty |-> FALSE]
       IN  IF Lower(IF action.event.object = NoneStr THEN "" ELSE action.event.object)
                 = "waiting"
           THEN /\ tiles' = attached
                /\ Called("execute", <<AgentName, max_steps>>, "waiting")
                /\ UNCHANGED <<address_index, addr_index_dirty, position, action, memVars>>
           ELSE IF action.path.is_set /\ action.path.path # <<>>
           THEN ExecuteAlong(max_steps, attached, action, same)
           ELSE LET index == IF ReachesIndex(position, action) THEN looked ELSE same
                IN  \E target \in _select_target_tile(index.index, position, action) :
                       IF target = NoneCoord
                       THEN /\ tiles' = attached
                            /\ address_index' = index.index
                            /\ addr_index_dirty' = index.dirty
                            /\ Called("execute", <<AgentName, max_steps>>, "no target")
                            /\ UNCHANGED <<position, action, memVars>>
                       ELSE LET path == _find_path(position, target)
                                planned == [action EXCEPT
                                              !.path.path = IF Len(path) <= 1 THEN <<>>
                                                            ELSE Tail(path),
                                              !.path.is_set = TRUE]
                            IN  ExecuteAlong(max_steps, attached, planned, index)

------------------------------------------------------------------------------
(* agents/planner.py: the reaction to a focused event *)

\* no event is in focus: the None that plan holds for focused_event
NoneEvent == Event(NoneStr, NoneStr, NoneStr, NoneStr)

\* the generator raising instead of answering, and an exception leaving a call
Raises == "<raises>"

\* what the reaction text starts with, as _apply_reaction tests it in turn;
\* "" for a text no handler takes
ReactionMode(reaction) ==
    CASE reaction = "chat with Bob"   -> "chat with"
      [] reaction = "wait"            -> "wait"
      [] reaction = "move to kitchen" -> "move to"
      [] reaction = "move to world:farm" -> "move to"
      [] reaction = "observe"         -> "observe"
      [] reaction = "help"            -> "help"
      [] reaction = "follow"          -> "follow"
      [] OTHER                        -> ""

\* reaction_mode[len("move to "):].strip() or "somewhere"
ReactionLocation(reaction) ==
    CASE reaction = "move to kitchen"    -> "kitchen"
      [] reaction = "move to world:farm" -> "world:farm"
      [] OTHER                           -> "somewhere"

\* the address string a reaction leaves, by its colons
SplitColon(location) ==
    IF location = "world:farm" THEN <<WorldName, "farm">> ELSE <<location>>

\* reaction.strip().lower().startswith("ignore")
IsIgnore(reaction) == reaction \in {"ignore", "Ignore"}

\* "sleep" in current_desc or "in bed" in current_desc
DescribesSleep(description) == description \in {"sleeping", "lying in bed"}

\* _decide_reaction: None without asking while the agent sleeps or chats,
\* else the generator's stripped answer (None when empty); the generator's
\* exception is not caught
_decide_reaction(act, outcome) ==
    IF DescribesSleep(act.description) THEN NoneStr
    ELSE IF Truthy(act.chat.with_whom) THEN NoneStr
    ELSE IF outcome = Raises THEN Raises
    ELSE IF outcome = "" THEN NoneStr
    ELSE outcome

\* the action one handler of _apply_reaction writes
Reacting(act, description, event, duration, now) ==
    [act EXCEPT !.description = description, !.event = event,
                !.duration = duration, !.start_time = now]

\* _apply_reaction on the action, for the handlers that finish
_apply_reaction_action(act, focused, reaction, now) ==
    LET mode   == ReactionMode(reaction)
        target == IF Truthy(focused.object) THEN focused.object ELSE "someone"
        seen   == IF Truthy(focused.object) THEN focused.object ELSE "surroundings"
    IN  CASE mode = "wait" ->
               Reacting(act, "waiting quietly",
                        Event(AgentName, "is", "waiting", "The agent decides to wait quietly."),
                        10, now)
          [] mode = "move to" ->
               [Reacting(act, "moving to " \o ReactionLocation(reaction),
                         Event(AgentName, "move to", ReactionLocation(reaction),
                               AgentName \o " heads toward " \o ReactionLocation(reaction) \o "."),
                         15, now)
                  EXCEPT !.address = Address(SplitColon(ReactionLocation(reaction)))]
          [] mode = "observe" ->
               Reacting(act, "observing " \o seen,
                        Event(AgentName, "observe", seen,
                              AgentName \o " watches " \o seen \o " closely."),
                        5, now)
          [] mode = "help" ->
               Reacting(act, "helping " \o target,
                        Event(AgentName, "help", target,
                              AgentName \o " offers help to " \o target \o "."),
                        10, now)
          [] mode = "follow" ->
               Reacting(act, "following " \o target,
                        Event(AgentName, "follow", target,
                              AgentName \o " quietly follows " \o target \o "."),
                        10, now)
          [] OTHER -> act

\* the end of plan: an action that is no chat loses its chat partner, log
\* and timer, and the buffers of everyone but the partner count down
PlanTail(act) ==
    LET cleared == IF act.event.predicate # "chat with"
                   THEN [act EXCEPT !.chat.with_whom = NoneStr, !.chat.chat_log = <<>>,
                                    !.chat.end_time = NoneInt]
                   ELSE act
    IN  [cleared EXCEPT !.chat.buffer =
            [n \in DOMAIN @ |-> IF n # cleared.chat.with_whom /\ @[n] > 0
                                THEN @[n] - 1 ELSE @[n]]]

\* the address string back from its parts
RECURSIVE JoinColon(_)
JoinColon(parts) ==
    IF Len(parts) = 1 THEN parts[1] ELSE parts[1] \o ":" \o JoinColon(Tail(parts))

AddressString(a) ==
    IF a.token = "<waiting>" /\ a.at # NoneCoord
    THEN "<waiting> " \o ToString(a.at[1]) \o " " \o ToString(a.at[2])
    ELSE JoinColon(a.parts)

\* current_action.address or "idle"
PlanReturns(act) ==
    IF AddressTruthy(AddressOrEmpty(act.address)) THEN AddressString(act.address) ELSE "idle"

\* the action is current: plan does not determine a next action
ActionCurrent(act, now) ==
    /\ act.start_time # NoneInt
    /\ act.duration # NoneInt
    /\ Truthy(act.description)
    /\ ~is_chat_finished(act, now)

\* What the generator and the schedule give _determine_next_action: the
\* task's description, event and duration, the address put together from
\* the sector, arena and object chosen, the subtasks, whether the microtask
\* prompt failed (then the old subtasks stay), and whether a sector, arena
\* or object prompt raised
Determined(description, event, duration, address, subtasks, microtasks_fail, raises) ==
    [description |-> description, event |-> event, duration |-> duration,
     address |-> address, subtasks |-> subtasks,
     microtasks_fail |-> microtasks_fail, raises |-> raises]

\* _determine_next_action writes the action in place; path and chat stay
_determine_next_action(act, next, now) ==
    [act EXCEPT !.description = next.description, !.event = next.event,
                !.address = next.address, !.duration = next.duration,
                !.start_time = now,
                !.subtasks = IF next.microtasks_fail THEN @ ELSE next.subtasks]

\* ModularPlanner.plan on a day already planned.  next is what
\* _determine_next_action would come to (used when the action is not
\* current), focused the event selected for a reaction (NoneEvent when there
\* is none), outcome what the generator does when asked for the reaction.
\* The "chat with" handler calls generate_conversation(agent, target) without
\* the world argument, which raises after the event has been taken off the
\* tile.
plan(next, focused, outcome) ==
    LET now      == stm_current_time[AgentName]
        current  == ActionCurrent(action, now)
        based    == IF current THEN action ELSE _determine_next_action(action, next, now)
        reaction == IF focused = NoneEvent THEN NoneStr ELSE _decide_reaction(based, outcome)
        removed  == [tiles EXCEPT ![position].events = Tile_remove_event(@, based.event)]
    IN  /\ UNCHANGED <<width, height, address_index, addr_index_dirty, current_time,
                       position, agents, other_position, stm_current_time, turn, clock,
                       memVars>>
        /\ IF ~current /\ next.raises
           THEN /\ Called("plan", <<next, focused, outcome>>, Raises)
                /\ UNCHANGED <<tiles, action>>
           ELSE IF reaction = Raises
           THEN /\ action' = based
                /\ Called("plan", <<next, focused, outcome>>, Raises)
                /\ UNCHANGED tiles
           ELSE IF reaction = NoneStr \/ IsIgnore(reaction)
           THEN /\ action' = PlanTail(based)
                /\ Called("plan", <<next, focused, outcome>>, PlanReturns(action'))
                /\ UNCHANGED tiles
           ELSE IF ReactionMode(reaction) = "chat with"
           THEN /\ tiles' = removed
                /\ action' = based
                /\ Called("plan", <<next, focused, outcome>>, Raises)
           ELSE /\ tiles' = removed
                /\ action' = PlanTail(_apply_reaction_action(based, focused, reaction, now))
                /\ Called("plan", <<next, focused, outcome>>, PlanReturns(action'))

------------------------------------------------------------------------------
(* The parts a scenario leaves out *)

\* no grid is built
TileManagerUnused ==
    /\ width = 0 /\ height = 0 /\ tiles = <<>>
    /\ address_index = <<>> /\ addr_index_dirty = TRUE

\* the agent stays as built, its memory empty, and no time passes
AgentUnused ==
    /\ current_time = 0
    /\ position = <<0, 0>>
    /\ agents = <<>> /\ other_position = <<>> /\ turn = 0
    /\ stm_current_time = [n \in {AgentName} |-> NoneInt]
    /\ action = AgentAction
    /\ clock = 0
    /\ LongTermMemoryInit

------------------------------------------------------------------------------
(* The long term memory on its own: nodes of the three types added in any   *)
(* order while the clock moves on, and is_expired asked of any node.        *)

\* bounds of the model: nodes added, clock advances
MaxNodes    == 3
MaxAdvances == 1

MemEvents      == { Event("Tom", "eats", "bread", "Tom eats bread") }
MemKeywordSets == { {"Tom", "Bread"} }
MemRelevances  == { 5 }

\* how far the clock may move between the two reads of add_thought
ClockJitter   == {0, 1}
ClockAdvances == {1, Days(ThoughtDays) - Second, Days(ThoughtDays)}

InitMem ==
    /\ TileManagerUnused
    /\ current_time = 0
    /\ position = <<0, 0>>
    /\ agents = <<>> /\ other_position = <<>> /\ turn = 0
    /\ stm_current_time = [n \in {AgentName} |-> NoneInt]
    /\ action = AgentAction
    /\ clock = 0
    /\ LongTermMemoryInit
    /\ NoCallYet

MemFrame == UNCHANGED <<tmVars, current_time, agentVars>>

AddEvent ==
    /\ node_counter < MaxNodes
    /\ \E event \in MemEvents, relevance \in MemRelevances, keywords \in MemKeywordSets :
          add_event(event, relevance, keywords, NoneInt)
    /\ MemFrame /\ UNCHANGED steps

AddThought ==
    /\ node_counter < MaxNodes
    /\ \E event \in MemEvents, relevance \in MemRelevances, keywords \in MemKeywordSets,
          jitter \in ClockJitter :
          add_thought(event, relevance, keywords, NoneInt, jitter)
    /\ MemFrame /\ UNCHANGED steps

AddChat ==
    /\ node_counter < MaxNodes
    /\ \E event \in MemEvents, relevance \in MemRelevances, keywords \in MemKeywordSets :
          add_chat(event, relevance, keywords, NoneInt)
    /\ MemFrame /\ UNCHANGED steps

\* time passes
AdvanceClock ==
    /\ steps < MaxAdvances
    /\ steps' = steps + 1
    /\ \E d \in ClockAdvances : clock' = clock + d
    /\ Called("advance_clock", <<>>, NoneInt)
    /\ MemFrame /\ UNCHANGED memVars

IsExpired ==
    /\ \E node \in AllNodes :
          Called("is_expired", <<node.node_id>>, is_expired(node, clock))
    /\ MemFrame /\ UNCHANGED <<clock, memVars, steps>>

NextMem == AddEvent \/ AddThought \/ AddChat \/ AdvanceClock \/ IsExpired

SpecMem == InitMem /\ [][NextMem]_vars

(* C8: after any interleaving of add_event, add_thought and add_chat all    *)
(* node ids are pairwise distinct, and the id number of every newly created *)
(* node is greater than the id number of every node created before it,      *)
(* whatever the types.                                                      *)
C8_NodeIdsUniqueIncreasing ==
    /\ [](Cardinality(NodeIds) = Cardinality(AllNodes)
          /\ Cardinality(AllNodes) = Len(node_sequences["event"])
                + Len(node_sequences["thought"]) + Len(node_sequences["chat"]))
    /\ [][\A new \in AllNodes' \ AllNodes : \A old \in AllNodes :
             new.node_id > old.node_id]_vars

\* the three types mixed: a chat node added after an event and a thought
C8_Witness ==
    /\ op = "add_chat"
    /\ Len(node_sequences["event"]) = 1
    /\ Len(node_sequences["thought"]) = 1
    /\ Len(node_sequences["chat"]) = 1

\* is_expired was asked of node n, a thought node that add_thought created
\* at one clock value (both reads of the clock returned n.created)
AskedThoughtCreatedAtOnce(n) ==
    /\ op = "is_expired"
    /\ n.node_id = args[1] /\ n.node_type = "thought"
    /\ n.expiration = n.created + Days(ThoughtDays)

(* C10 as stated: a thought node created by add_thought at clock value c    *)
(* reports is_expired() false when the clock reads c + 30 days - 1 second   *)
(* and true when the clock reads exactly c + 30 days.                       *)
C10_ExpiredAtThirtyDays ==
    \A n \in AllNodes :
        AskedThoughtCreatedAtOnce(n) =>
            /\ (clock = n.created + Days(30) - Second => ret = FALSE)
            /\ (clock = n.created + Days(30) => ret = TRUE)

------------------------------------------------------------------------------
(* The tile grid on its own: the 2 x 2 grid of the tests under any          *)
(* interleaving of attribute changes, collision changes and lookups.        *)

Addresses ==
    { <<WorldName, s>> : s \in Sectors }
    \cup { <<WorldName, s, a>> : s \in Sectors, a \in Arenas }
    \cup { <<WorldName, s, a, o>> : s \in Sectors, a \in Arenas, o \in Objects }

InitTile ==
    /\ TileManagerInit(SmallGrid, SmallGrid)
    /\ AgentUnused
    /\ NoCallYet

\* one more TileManager operation; the agent and the clock are not involved
TileStep ==
    /\ steps < MaxTileOps
    /\ steps' = steps + 1
    /\ UNCHANGED <<current_time, agentVars, clock, memVars>>

NextTile ==
    \/ \E c \in Coords(SmallGrid, SmallGrid), sector \in Sectors :
          TileStep /\ set_sector(c[1], c[2], sector)
    \/ \E c \in Coords(SmallGrid, SmallGrid), arena \in Arenas :
          TileStep /\ set_arena(c[1], c[2], arena)
    \/ \E c \in Coords(SmallGrid, SmallGrid), game_object \in Objects :
          TileStep /\ set_game_object(c[1], c[2], game_object)
    \/ \E c \in Coords(SmallGrid, SmallGrid), collision \in BOOLEAN :
          TileStep /\ set_collision(c[1], c[2], collision)
    \/ \E address \in Addresses :
          TileStep /\ find_positions_by_address(address)

SpecTile == InitTile /\ [][NextTile]_vars

\* tile c carries the address: its world:sector[:arena[:object]] prefix of
\* the address's length is the address
HasAddress(c, address) ==
    /\ address[1] = WorldName
    /\ address[2] = tiles[c].sector
    /\ Len(address) >= 3 => address[3] = tiles[c].arena
    /\ Len(address) >= 4 => address[4] = tiles[c].game_object

CurrentAnswer(address) ==
    { c \in DOMAIN tiles : HasAddress(c, address) /\ ~tiles[c].collision }

LookedUp == op = "find_positions_by_address"
AttributeSetters == {"set_sector", "set_arena", "set_game_object"}

(* C6: the find_positions_by_address call that immediately follows a        *)
(* set_sector, set_arena or set_game_object call answers from the tiles'    *)
(* current attributes: it returns, once each, exactly the non-collidable    *)
(* tiles whose current address prefix is the address asked for.             *)
C6_LookupAfterSetIsFresh ==
    (LookedUp /\ prev_op \in AttributeSetters) =>
        /\ Range(ret) = CurrentAnswer(args[1])
        /\ NoDuplicates(ret)

\* a lookup right after a change, late enough for an index to have been
\* built before the change, answering with two tiles
C6_Witness ==
    /\ LookedUp /\ prev_op \in AttributeSetters
    /\ steps = 4 /\ Len(ret) = 2

(* C7 as stated: in every reachable state find_positions_by_address returns *)
(* exactly the tiles that carry the address and are non-collidable at the   *)
(* time of the call, also after a tile's collision flag has changed.        *)
C7_LookupNeverStale ==
    LookedUp => Range(ret) = CurrentAnswer(args[1])

------------------------------------------------------------------------------
(* The completion predicate on its own: an action whose fields are drawn    *)
(* from bounded sets, queried at a time drawn from a bounded set.           *)

TimesUpTo(maxMinute) ==
    { Minutes(m) + s * Second + u :
        m \in 0..maxMinute, s \in {0, 1, 59}, u \in 0..(TicksPerSecond - 1) }

StartTimes == TimesUpTo(MaxStartMinute)
QueryTimes == TimesUpTo(MaxQueryMinute)
Durations  == {NoneInt, 0, 5, 10}
Partners   == {NoneStr, "Bob"}
ChatEnds   == {NoneInt, Minutes(5), Minutes(6) + Second, Minutes(11)}

InitAction ==
    /\ TileManagerUnused
    /\ current_time = 0
    /\ position = <<0, 0>>
    /\ agents = <<>> /\ other_position = <<>> /\ turn = 0
    /\ stm_current_time = [n \in {AgentName} |-> NoneInt]
    /\ clock = 0
    /\ LongTermMemoryInit
    /\ \E st \in StartTimes \cup {NoneInt}, d \in Durations, w \in Partners, ce \in ChatEnds :
          action = [AgentAction EXCEPT !.start_time = st, !.duration = d,
                                       !.chat.with_whom = w, !.chat.end_time = ce]
    /\ NoCallYet

IsChatFinished(now) ==
    /\ Called("is_chat_finished", <<now>>, is_chat_finished(action, now))
    /\ UNCHANGED <<tmVars, current_time, agentVars, clock, memVars, steps>>

\* is_chat_finished changes nothing: one query per behaviour
NextAction == \E now \in QueryTimes : op = "init" /\ IsChatFinished(now)

SpecAction == InitAction /\ [][NextAction]_vars

Queried == op = "is_chat_finished"
QueryNow == args[1]

(* C4: while chat.with_whom is set, is_chat_finished(now) is true exactly   *)
(* when chat.end_time is set and now >= chat.end_time, whatever start_time  *)
(* and duration are; with chat.end_time unset it is false at every time.    *)
C4_ChatEndTimeGoverns ==
    (Queried /\ action.chat.with_whom # NoneStr) =>
        /\ ret = (action.chat.end_time # NoneInt /\ QueryNow >= action.chat.end_time)
        /\ (action.chat.end_time = NoneInt => ret = FALSE)

\* the generic end time has passed, the chat's has not: not finished
C4_Witness ==
    /\ Queried /\ action.chat.with_whom = "Bob"
    /\ action.start_time = 0 /\ action.duration = 0
    /\ action.chat.end_time = Minutes(5)
    /\ QueryNow = Minutes(1) /\ ret = FALSE

NoPartnerDuration10 ==
    /\ Queried /\ action.chat.with_whom = NoneStr
    /\ action.duration = 10 /\ action.start_time # NoneInt

(* C5 as stated: for an action with duration 10, any start_time T and no    *)
(* chat partner, is_chat_finished is false at T + 9 min 59 s and true at    *)
(* T + 10 min.                                                              *)
C5_AnyStartTime ==
    NoPartnerDuration10 =>
        /\ (QueryNow = action.start_time + Minutes(9) + 59 * Second => ret = FALSE)
        /\ (QueryNow = action.start_time + Minutes(10) => ret = TRUE)

(* C5 amended: for an action with duration 10, no chat partner and a        *)
(* start_time T whose seconds field is 0, is_chat_finished is false at      *)
(* T + 9 min 59 s and true at T + 10 min; for every T it is false at        *)
(* T + 9 min 59 s.                                                          *)
C5_WholeMinuteStart ==
    NoPartnerDuration10 =>
        /\ (QueryNow = action.start_time + Minutes(9) + 59 * Second => ret = FALSE)
        /\ (SecondOf(action.start_time) = 0 /\ QueryNow = action.start_time + Minutes(10)
               => ret = TRUE)

C5_Witness ==
    /\ NoPartnerDuration10
    /\ action.start_time = Minutes(1)
    /\ QueryNow = Minutes(11) /\ ret = TRUE

------------------------------------------------------------------------------
(* Path finding on its own: _find_path asked for any start and goal of a    *)
(* two-row grid: a row of tiles of any terrain, collidable or not, beside   *)
(* a row that is plain, gravel or collidable throughout.                    *)

\* bound of the model: the grid's width
PathWidth == 4

PlainTile  == Tile
GravelTile == [Tile EXCEPT !.game_object = "gravel"]
BushTile   == [Tile EXCEPT !.game_object = "bush"]
WallTile   == [Tile EXCEPT !.collision = TRUE]

TerrainTiles == {PlainTile, GravelTile, BushTile, WallTile}
UniformRows  == {PlainTile, GravelTile, WallTile}

InitPath ==
    /\ width = PathWidth /\ height = SmallGrid
    /\ \E mixed \in [0..(PathWidth - 1) -> TerrainTiles], uniform \in UniformRows :
          tiles = [c \in Coords(PathWidth, SmallGrid) |->
                     IF c[2] = 0 THEN mixed[c[1]] ELSE uniform]
    /\ address_index = <<>> /\ addr_index_dirty = TRUE
    /\ AgentUnused
    /\ NoCallYet

FindPath ==
    /\ op = "init"
    /\ \E start \in DOMAIN tiles, goal \in DOMAIN tiles :
          Called("_find_path", <<start, goal>>, _find_path(start, goal))
    /\ UNCHANGED <<tmVars, current_time, agentVars, clock, memVars, steps>>

NextPath == FindPath

SpecPath == InitPath /\ [][NextPath]_vars

\* the call the claims speak of
PathAsked == op = "_find_path"
PathStart == args[1]
PathGoal  == args[2]

\* the cost of entering a tile as the specification words it, in tenths
StatedCost(c) ==
    IF tiles[c].game_object \in {"gravel", "path", "road"} THEN 5
    ELSE IF tiles[c].game_object = "bush" THEN 12
    ELSE 10

Adjacent(a, b) ==
    \/ a[1] = b[1] /\ (a[2] = b[2] + 1 \/ b[2] = a[2] + 1)
    \/ a[2] = b[2] /\ (a[1] = b[1] + 1 \/ b[1] = a[1] + 1)

Around(c) ==
    { <<c[1] + 1, c[2]>>, <<c[1] - 1, c[2]>>, <<c[1], c[2] + 1>>, <<c[1], c[2] - 1>> }
    \cap DOMAIN tiles

Least(S) == CHOOSE v \in S : \A u \in S : v <= u

\* above the cost of any walk without a repeated tile
Unreachable == 12 * width * height + 1

\* the least stated cost from start to every tile over 4-connected walks
\* that enter only non-collidable tiles (Bellman-Ford to its fixed point)
RECURSIVE LeastCosts(_)
LeastCosts(d) ==
    LET relaxed == [c \in DOMAIN tiles |->
                      IF tiles[c].collision THEN d[c]
                      ELSE Least({d[c]} \cup { d[m] + StatedCost(c) : m \in Around(c) })]
    IN  IF relaxed = d THEN d ELSE LeastCosts(relaxed)

LeastCost(start, goal) ==
    LeastCosts([c \in DOMAIN tiles |-> IF c = start THEN 0 ELSE Unreachable])[goal]

RECURSIVE PathCost(_)
PathCost(path) ==
    IF Len(path) <= 1 THEN 0 ELSE StatedCost(path[Len(path)]) + PathCost(SubSeq(path, 1, Len(path) - 1))

\* a 4-connected walk through non-collidable tiles
IsWalk(path) ==
    /\ \A i \in 1..Len(path) : path[i] \in DOMAIN tiles /\ ~tiles[path[i]].collision
    /\ \A i \in 1..(Len(path) - 1) : Adjacent(path[i], path[i + 1])

Manhattan(a, b) ==
    (IF a[1] > b[1] THEN a[1] - b[1] ELSE b[1] - a[1])
    + (IF a[2] > b[2] THEN a[2] - b[2] ELSE b[2] - a[2])

(* C1: for non-collidable start and goal connected through non-collidable   *)
(* 4-neighbours, _find_path returns a walk that begins at start, ends at    *)
(* goal, and whose total cost of the tiles entered is the least possible.   *)
C1_PathIsCheapest ==
    (PathAsked /\ ~tiles[PathStart].collision /\ ~tiles[PathGoal].collision)
    => LET least == LeastCost(PathStart, PathGoal)
       IN  least < Unreachable
           => /\ ret[1] = PathStart
              /\ ret[Len(ret)] = PathGoal
              /\ IsWalk(ret)
              /\ PathCost(ret) = least

\* no tile is collidable and the path returned takes more steps than the
\* shortest one: the cheaper terrain was worth the detour
C1_Witness ==
    /\ PathAsked
    /\ \A c \in DOMAIN tiles : ~tiles[c].collision
    /\ Len(ret) - 1 > Manhattan(PathStart, PathGoal)
    /\ PathCost(ret) < 10 * Manhattan(PathStart, PathGoal)

(* C2 as stated: for every in-bounds start and goal, whatever their         *)
(* collision flags, no coordinate of the list _find_path returns is a       *)
(* collidable tile.                                                         *)
C2_NoCollidableTile ==
    PathAsked => \A i \in 1..Len(ret) : ~tiles[ret[i]].collision

(* C2 amended: for every in-bounds start and goal, the list _find_path      *)
(* returns begins with start, whatever its collision flag, and no           *)
(* coordinate after the first is a collidable tile.                         *)
C2_NoCollidableTileAfterStart ==
    PathAsked => /\ ret[1] = PathStart
                 /\ \A i \in 2..Len(ret) : ~tiles[ret[i]].collision

\* a wall stands between start and goal and the path goes around it
C2_Witness ==
    /\ PathAsked
    /\ \E c \in DOMAIN tiles : tiles[c].collision
    /\ ret[Len(ret)] = PathGoal
    /\ Len(ret) - 1 > Manhattan(PathStart, PathGoal)

(* C13: for every tile p of the grid, _find_path(p, p) returns the          *)
(* single-element path [p].                                                 *)
C13_SameTileSinglePath ==
    (PathAsked /\ PathStart = PathGoal) => ret = <<PathStart>>

\* asked for a collidable tile, too
C13_Witness ==
    /\ PathAsked
    /\ PathStart = PathGoal
    /\ tiles[PathStart].collision
    /\ ret = <<PathStart>>

\* the goal can be reached from start by steps onto non-collidable
\* 4-neighbours
GoalReachable == LeastCost(PathStart, PathGoal) < Unreachable

(* C14: when the goal cannot be reached from start through non-collidable   *)
(* in-bounds 4-neighbours, a collidable goal included, _find_path returns   *)
(* exactly [start]; whenever the goal can be reached it returns a path that *)
(* ends at goal.                                                            *)
C14_StartAloneWhenUnreachable ==
    PathAsked =>
        IF GoalReachable THEN Len(ret) >= 1 /\ ret[Len(ret)] = PathGoal
        ELSE ret = <<PathStart>>

\* walls cut a non-collidable goal off from a non-collidable start
C14_Witness ==
    /\ PathAsked
    /\ ~tiles[PathStart].collision /\ ~tiles[PathGoal].collision
    /\ ~GoalReachable
    /\ ret = <<PathStart>>

------------------------------------------------------------------------------
(* Cleaning up: an agent of the 2 x 2 grid with an action drawn from        *)
(* bounded sets, while events are put on tiles, the world's time moves on   *)
(* and cleanup_expired is called, any number of times in a row.             *)

\* bounds of the model: events put on tiles and time advances in one
\* behaviour, events on one tile
MaxCleanupOps == 3
MaxTileEvents == 2

CleanupEvents == { Event("Tom", "is", "sleeping", "Tom is sleeping"),
                   Event("Tom", "chat with", "Bob", "Tom chat with Bob") }

\* the loop of main.py advances the world by 5 minutes, World.advance_time
\* by 1 when not told
TickMinutes == {1, 5}

CleanupChats ==
    { ChatInteraction,
      [ChatInteraction EXCEPT !.with_whom = "Bob", !.chat_log = <<"Hello">>],
      [ChatInteraction EXCEPT !.with_whom = "Bob", !.chat_log = <<"Hello">>,
                              !.end_time = Minutes(1)] }

InitCleanup ==
    /\ TileManagerInit(SmallGrid, SmallGrid)
    /\ current_time = 0
    /\ position \in Coords(SmallGrid, SmallGrid)
    /\ agents = <<>> /\ other_position = <<>> /\ turn = 0
    /\ stm_current_time = [n \in {AgentName} |-> NoneInt]
    /\ \E event \in CleanupEvents, st \in {NoneInt, 0}, d \in {NoneInt, 5},
          chat \in CleanupChats :
          action = [AgentAction EXCEPT !.event = event, !.start_time = st, !.duration = d,
                                       !.chat = chat,
                                       !.path = [path |-> << <<1, 1>> >>, is_set |-> TRUE]]
    /\ clock = 0
    /\ LongTermMemoryInit
    /\ NoCallYet

AddEventToTile ==
    /\ steps < MaxCleanupOps
    /\ steps' = steps + 1
    /\ \E c \in DOMAIN tiles, event \in CleanupEvents :
          /\ Len(tiles[c].events) < MaxTileEvents
          /\ add_event_to_tile(c[1], c[2], event)
    /\ UNCHANGED <<current_time, agentVars, clock, memVars>>

AdvanceTime ==
    /\ steps < MaxCleanupOps
    /\ steps' = steps + 1
    /\ \E minutes \in TickMinutes : advance_time(minutes)
    /\ UNCHANGED <<tmVars, position, action, agents, other_position, turn, clock, memVars>>

CleanupExpired ==
    /\ cleanup_expired
    /\ UNCHANGED <<current_time, clock, memVars, steps>>

NextCleanup == AddEventToTile \/ AdvanceTime \/ CleanupExpired

SpecCleanup == InitCleanup /\ [][NextCleanup]_vars

(* C3 as stated: cleanup_expired called twice in a row, at one world time   *)
(* and with no change to the action in between, leaves after the second     *)
(* call the state that held after the first: the action's path and chat     *)
(* fields, the agent's position and every tile's event list.                *)
C3_CleanupIdempotent ==
    [][(op = "cleanup_expired" /\ op' = "cleanup_expired")
          => (action' = action /\ position' = position /\ tiles' = tiles)]_vars

------------------------------------------------------------------------------
(* Retrieval: events and thoughts of any kind stored, idle ones among       *)
(* them, while the clock moves on, and retrieve_relevant_nodes asked for    *)
(* any list of focal descriptions.                                          *)

\* bound of the model: nodes stored
MaxStored == 2

\* an event, the idle event as perceive normalises it, and an event whose
\* predicate and object are "is idle" under a description of its own
RetrEvents == { Event("Tom", "eats", "bread", "Tom eats bread"),
                Event("Tom", "is", "idle", "Tom is Idle"),
                Event("Tom", "is", "idle", "Tom rests") }
RetrRelevances  == {1, 5}
RetrEmbeddings  == {NoneInt, 0}
RetrClockSteps  == {Second, Days(ThoughtDays)}
FocalLists == { <<>>, <<"Tom eats bread">>, <<"Tom eats bread", "What is Bob doing">> }

InitRetr ==
    /\ TileManagerUnused
    /\ current_time \in {NoneInt, Minutes(1)}
    /\ position = <<0, 0>>
    /\ agents = <<>> /\ other_position = <<>> /\ turn = 0
    /\ stm_current_time = [n \in {AgentName} |-> NoneInt]
    /\ action = AgentAction
    /\ clock = 0
    /\ LongTermMemoryInit
    /\ NoCallYet

RetrFrame == UNCHANGED <<tmVars, current_time, agentVars>>

StoreEvent ==
    /\ node_counter < MaxStored
    /\ \E event \in RetrEvents, relevance \in RetrRelevances, embedding \in RetrEmbeddings :
          add_event(event, relevance, {"Tom"}, embedding)
    /\ RetrFrame /\ UNCHANGED steps

StoreThought ==
    /\ node_counter < MaxStored
    /\ \E event \in RetrEvents, relevance \in RetrRelevances, embedding \in RetrEmbeddings :
          add_thought(event, relevance, {"Tom"}, embedding, 0)
    /\ RetrFrame /\ UNCHANGED steps

ClockMoves ==
    /\ steps < MaxAdvances
    /\ steps' = steps + 1
    /\ \E d \in RetrClockSteps : clock' = clock + d
    /\ Called("advance_clock", <<>>, NoneInt)
    /\ RetrFrame /\ UNCHANGED memVars

\* a second retrieval right after one finds the same candidates
RetrieveRelevantNodes ==
    /\ op # "retrieve_relevant_nodes"
    /\ \E focal_descriptions \in FocalLists : retrieve_relevant_nodes(focal_descriptions)
    /\ RetrFrame /\ UNCHANGED steps

NextRetr == StoreEvent \/ StoreThought \/ ClockMoves \/ RetrieveRelevantNodes

SpecRetr == InitRetr /\ [][NextRetr]_vars

(* C9 as stated: for every store content and every focal description, the   *)
(* list retrieve_relevant_nodes returns for the description has at most     *)
(* max_results (30) nodes, and every returned node is non-expired and its   *)
(* event is not the idle sentinel (predicate and object "is idle").         *)
C9_RetrievedNodesValid ==
    op = "retrieve_relevant_nodes" =>
        \A description \in DOMAIN ret :
            /\ Len(ret[description]) <= 30
            /\ \A i \in 1..Len(ret[description]) :
                  LET node == NodeById(ret[description][i])
                  IN  /\ ~is_expired(node, clock)
                      /\ ~(node.event.predicate = "is" /\ node.event.object = "idle")

------------------------------------------------------------------------------
(* The keyword indexes: nodes of the three types stored under keyword sets  *)
(* of any case, the empty keyword among them, while the clock moves on,     *)
(* and the two keyword lookups asked for any event.                         *)

KeywordSets == { {}, {""}, {"Tom", "Bread"}, {"Tom", "TOM"} }
KeyEvents   == { Event("TOM", "eats", "bread", "TOM eats bread"),
                 Event("", NoneStr, NoneStr, "Sells surplus crops"),
                 Event("Bob", "IS", "idle", "Bob IS idle") }

InitKeys ==
    /\ TileManagerUnused
    /\ current_time = 0
    /\ position = <<0, 0>>
    /\ agents = <<>> /\ other_position = <<>> /\ turn = 0
    /\ stm_current_time = [n \in {AgentName} |-> NoneInt]
    /\ action = AgentAction
    /\ clock = 0
    /\ LongTermMemoryInit
    /\ NoCallYet

KeysFrame == UNCHANGED <<tmVars, current_time, agentVars>>

KeyEvent ==
    /\ node_counter < MaxStored
    /\ \E keywords \in KeywordSets :
          add_event(Event("Tom", "eats", "bread", "Tom eats bread"), 5, keywords, NoneInt)
    /\ KeysFrame /\ UNCHANGED steps

KeyThought ==
    /\ node_counter < MaxStored
    /\ \E keywords \in KeywordSets :
          add_thought(Event("Tom", "eats", "bread", "Tom eats bread"), 5, keywords, NoneInt, 0)
    /\ KeysFrame /\ UNCHANGED steps

KeyChat ==
    /\ node_counter < MaxStored
    /\ \E keywords \in KeywordSets :
          add_chat(Event("Tom", "eats", "bread", "Tom eats bread"), 5, keywords, NoneInt)
    /\ KeysFrame /\ UNCHANGED steps

KeyClock ==
    /\ steps < MaxAdvances
    /\ steps' = steps + 1
    /\ \E d \in {Days(ThoughtDays), Days(ThoughtDays) + Second} : clock' = clock + d
    /\ Called("advance_clock", <<>>, NoneInt)
    /\ KeysFrame /\ UNCHANGED memVars

\* a lookup changes nothing: one lookup between two changes of the store
Lookups == {"retrieve_relevant_events", "retrieve_relevant_thoughts"}

RetrieveRelevantEvents ==
    /\ op \notin Lookups
    /\ \E event \in KeyEvents : retrieve_relevant_events(event)
    /\ KeysFrame /\ UNCHANGED steps

RetrieveRelevantThoughts ==
    /\ op \notin Lookups
    /\ \E event \in KeyEvents : retrieve_relevant_thoughts(event)
    /\ KeysFrame /\ UNCHANGED steps

NextKeys ==
    \/ KeyEvent \/ KeyThought \/ KeyChat \/ KeyClock
    \/ RetrieveRelevantEvents \/ RetrieveRelevantThoughts

SpecKeys == InitKeys /\ [][NextKeys]_vars

\* the node type a lookup is about
LookupType ==
    IF op = "retrieve_relevant_events" THEN "event"
    ELSE IF op = "retrieve_relevant_thoughts" THEN "thought" ELSE NoneStr

SameIgnoringCase(a, b) == Lower(a) = Lower(b)

\* the ids of the non-expired nodes of type t stored with a keyword equal,
\* ignoring case, to one of the keys
Matching(t, keys) ==
    { n.node_id : n \in { m \in AllNodes :
                            /\ m.node_type = t
                            /\ ~is_expired(m, clock)
                            /\ \E k \in m.keywords, key \in keys : SameIgnoringCase(k, key) } }

(* C11 as stated: retrieve_relevant_events(e), and retrieve_relevant_       *)
(* thoughts(e) likewise, returns, each at most once, exactly the            *)
(* non-expired nodes of its type that were added with a keyword equal,      *)
(* ignoring case, to e's subject, predicate or object.                      *)
C11_LookupByAnyKey ==
    LookupType # NoneStr =>
        /\ NoDuplicates(ret)
        /\ Range(ret) = Matching(LookupType,
                                 {args[1].subject, args[1].predicate, args[1].object} \ {NoneStr})

(* C11 amended: the lookups return, each at most once, exactly the          *)
(* non-expired nodes of their type that were added with a keyword equal,    *)
(* ignoring case, to a non-empty subject, predicate or object of e; an      *)
(* empty or missing field of e is not used as a key.                        *)
C11_LookupByNonEmptyKey ==
    LookupType # NoneStr =>
        /\ NoDuplicates(ret)
        /\ Range(ret) = Matching(LookupType,
                                 {args[1].subject, args[1].predicate, args[1].object}
                                     \ {NoneStr, ""})

\* a thought that shares the keyword has expired and is left out, while a
\* fresh one stored under the keyword in another case is returned
C11_Witness ==
    /\ op = "retrieve_relevant_thoughts"
    /\ Len(ret) = 1
    /\ \E n \in AllNodes : /\ n.node_type = "thought" /\ is_expired(n, clock)
                           /\ "Tom" \in n.keywords
    /\ args[1].subject = "TOM"

------------------------------------------------------------------------------
(* Normalisation on its own: _normalize_dict applied to any score map of    *)
(* up to MaxNodes entries with scores up to MaxScore.                       *)

\* bound of the model: the largest score
MaxScore == 3

ScoreMaps == UNION { [keys -> 0..MaxScore] : keys \in SUBSET (1..MaxNodes) }

InitNorm ==
    /\ TileManagerUnused
    /\ AgentUnused
    /\ NoCallYet

NormalizeDict ==
    /\ op = "init"
    /\ \E values \in ScoreMaps : Called("_normalize_dict", <<values>>, _normalize_dict(values))
    /\ UNCHANGED <<tmVars, current_time, agentVars, clock, memVars, steps>>

NextNorm == NormalizeDict

SpecNorm == InitNorm /\ [][NextNorm]_vars

\* fractions <<numerator, denominator>> with a positive denominator
FracIs(f, num, den) == f[2] > 0 /\ f[1] * den = num * f[2]
FracLeq(f, g)  == f[1] * g[2] <= g[1] * f[2]
FracLess(f, g) == f[1] * g[2] < g[1] * f[2]

Smallest(values) == CHOOSE v \in Range(values) : \A u \in Range(values) : v <= u
Largest(values)  == CHOOSE v \in Range(values) : \A u \in Range(values) : v >= u

(* C12: _normalize_dict returns the empty map for the empty map; for a map  *)
(* whose values are all equal it maps every entry to 0.5; otherwise it maps *)
(* each entry holding the minimum to 0.0, each entry holding the maximum to *)
(* 1.0, and keeps the order of the entries.                                 *)
C12_MinMaxNormalised ==
    op = "_normalize_dict" =>
        LET values == args[1]
        IN  /\ DOMAIN ret = DOMAIN values
            /\ DOMAIN values # {} /\ Smallest(values) = Largest(values) =>
                  \A k \in DOMAIN values : FracIs(ret[k], 1, 2)
            /\ DOMAIN values # {} /\ Smallest(values) # Largest(values) =>
                  /\ \A k \in DOMAIN values :
                        /\ values[k] = Smallest(values) => FracIs(ret[k], 0, 1)
                        /\ values[k] = Largest(values) => FracIs(ret[k], 1, 1)
                  /\ \A a, b \in DOMAIN values :
                        values[a] <= values[b] => FracLeq(ret[a], ret[b])

\* three entries, one of them strictly between the least and the largest
C12_Witness ==
    /\ op = "_normalize_dict"
    /\ Cardinality(DOMAIN args[1]) = 3
    /\ \E k \in DOMAIN args[1] :
          /\ Smallest(args[1]) < args[1][k] /\ args[1][k] < Largest(args[1])
          /\ FracLess(<<0, 1>>, ret[k]) /\ FracLess(ret[k], <<1, 1>>)

\* list after is list before with one occurrence of event taken out, or the
\* same list when event is not in it
OneTakenOut(before, after, event) ==
    IF event \in Range(before)
    THEN \E i \in 1..Len(before) :
            /\ before[i] = event
            /\ after = SubSeq(before, 1, i - 1) \o SubSeq(before, i + 1, Len(before))
    ELSE after = before

------------------------------------------------------------------------------
(* The executor at work: on a small village, the agent stands anywhere      *)
(* with any of a few actions; execute, cleanup_expired and the planner's    *)
(* reaction run in any order while the world's time moves on by ticks.      *)

\* bounds of the model: the village's width, the operations run
ExecWidth  == 3
MaxExecOps == 3

\* the other agent of the world
OtherName == "Bob"

OtherEvent == Event(OtherName, "is", "fishing", "Bob is fishing")

\* the village: the first column is the farm, the others the inn with its
\* hearth in the far corner; one tile may be walled
VillageTile(c) ==
    IF c[1] = 0
    THEN [Tile EXCEPT !.sector = "farm", !.arena = "field"]
    ELSE IF c = <<ExecWidth - 1, 0>>
    THEN [Tile EXCEPT !.sector = "inn", !.arena = "hall", !.game_object = "hearth"]
    ELSE [Tile EXCEPT !.sector = "inn", !.arena = "hall"]

\* where the other agent stands
OtherStands == <<ExecWidth - 1, SmallGrid - 1>>

\* the tile that is walled: none, the hearth, or the one the other agent is on
ExecWalls == { NoneCoord, <<ExecWidth - 1, 0>>, OtherStands }

ExecAddresses ==
    { NoneAddress,
      WaitingAddress(<<ExecWidth - 1, 0>>), WaitingAddress(<<ExecWidth, 0>>),
      WaitingAddress(NoneCoord),
      RandomAddress,
      Address(<<"kitchen">>),
      Address(<<WorldName, "inn", "hall", "hearth">>),
      Address(<<WorldName, "inn", "hall", "bed">>),
      Address(<<WorldName, "farm">>),
      Address(<<WorldName, "mill">>) }

\* what the planner has made of the action, besides its address: nothing
\* (the action as built), a task with or without subtasks, a chat with and
\* without duration, a wait
ExecTasks ==
    { AgentAction,
      [AgentAction EXCEPT !.start_time = 0, !.duration = 5, !.description = "sleeping",
                          !.event = Event(AgentName, "is", "sleeping", "Tom is sleeping")],
      [AgentAction EXCEPT !.start_time = 0, !.duration = 5, !.description = "cooking",
                          !.event = Event(AgentName, "is", "cooking", "Tom is cooking"),
                          !.subtasks = <<"stirs", "tastes">>],
      [AgentAction EXCEPT !.start_time = 0, !.description = "heading to chat with Bob",
                          !.event = Event(AgentName, "Chat With", OtherName, "Tom greets Bob")],
      [AgentAction EXCEPT !.start_time = 0, !.duration = 20,
                          !.description = "heading to chat with Bob",
                          !.event = Event(AgentName, "chat with", OtherName, "Tom greets Bob"),
                          !.subtasks = <<"waves">>],
      [AgentAction EXCEPT !.start_time = 0, !.duration = 10, !.description = "waiting quietly",
                          !.event = Event(AgentName, "is", "Waiting", "Tom waits")] }

InitExec ==
    /\ width = ExecWidth /\ height = SmallGrid
    /\ address_index = <<>> /\ addr_index_dirty = TRUE
    /\ current_time = 0
    /\ agents = <<AgentName, OtherName>> /\ turn = 0
    /\ stm_current_time = [n \in {AgentName, OtherName} |-> 0]
    /\ position \in Coords(ExecWidth, SmallGrid)
    /\ other_position = [n \in {OtherName} |-> OtherStands]
    /\ \E wall \in ExecWalls :
          tiles = [c \in Coords(ExecWidth, SmallGrid) |->
                     [VillageTile(c) EXCEPT
                         !.collision = (c = wall),
                         !.events = IF c = OtherStands THEN <<OtherEvent>> ELSE <<>>]]
    /\ \E task \in ExecTasks, address \in ExecAddresses :
          action = [task EXCEPT !.address = address]
    /\ clock = 0
    /\ LongTermMemoryInit
    /\ NoCallYet

\* main.py runs execute with max_steps=3; 1 is the default
ExecMaxSteps == {1, 3}

Execute ==
    /\ steps < MaxExecOps
    /\ steps' = steps + 1
    /\ \E max_steps \in ExecMaxSteps : execute(max_steps)

ExecCleanupExpired ==
    /\ steps < MaxExecOps
    /\ steps' = steps + 1
    /\ cleanup_expired
    /\ UNCHANGED <<current_time, clock, memVars>>

\* what the planner is given to react to, and what the generator answers
PlanFocused  == { NoneEvent, OtherEvent }
PlanOutcomes ==
    { Raises, "Ignore", "wait", "move to kitchen", "move to world:farm", "chat with Bob",
      "dance" }

\* the next action is not asked for: the planner runs on a current action
NoNextAction == Determined(NoneStr, DefaultEvent, NoneInt, NoneAddress, <<>>, FALSE, FALSE)

Plan ==
    /\ steps < MaxExecOps
    /\ steps' = steps + 1
    /\ ActionCurrent(action, stm_current_time[AgentName])
    /\ \E focused \in PlanFocused, outcome \in PlanOutcomes :
          plan(NoNextAction, focused, outcome)

\* the loop of main.py moves the world on by TICK_MINUTES
TICK_MINUTES == 5

ExecAdvanceTime ==
    /\ steps < MaxExecOps
    /\ steps' = steps + 1
    /\ advance_time(TICK_MINUTES)
    /\ UNCHANGED <<tmVars, position, action, agents, other_position, turn, clock, memVars>>

NextExec == Execute \/ ExecCleanupExpired \/ Plan \/ ExecAdvanceTime

SpecExec == InitExec /\ [][NextExec]_vars

(* C16: when no action is set for the agent (the action as built, without   *)
(* start_time), execute returns "idle" and leaves the agent's position,     *)
(* every tile's event list, the action's path and the agent's memory        *)
(* unchanged.                                                               *)
C16_IdleWithoutAction ==
    [][(op' = "execute" /\ action = AgentAction)
          => (ret' = "idle" /\ UNCHANGED <<position, tiles, action, memVars>>)]_vars

\* the path of the action needs planning: execute selects a target
NeedsTarget(act) == ~act.path.is_set \/ act.path.path = <<>>

\* the event's object is the sentinel "waiting", in any letter case
ObjectIsWaiting(event) == event.object \in {"waiting", "Waiting", "WAITING"}

\* tile c answers the address by one of the rules for addresses with colons:
\* free and carrying exactly the address; carrying all the parts named,
\* walled or not; free in the sector and arena named; free in the sector named
AnswersAddress(c, address) ==
    LET sector == IF Len(address.parts) > 1 THEN address.parts[2] ELSE NoneStr
        arena  == IF Len(address.parts) > 2 THEN address.parts[3] ELSE NoneStr
        obj    == IF Len(address.parts) > 3 THEN address.parts[4] ELSE NoneStr
        free   == ~tiles[c].collision
        carries(t) == /\ sector # NoneStr => t.sector = sector
                      /\ arena # NoneStr => t.arena = arena
                      /\ obj # NoneStr => t.game_object = obj
    IN  \/ free /\ address.parts \in IndexKeys(tiles[c])
        \/ (Truthy(sector) \/ Truthy(arena) \/ Truthy(obj)) /\ carries(tiles[c])
        \/ free /\ Truthy(sector) /\ Truthy(arena)
                /\ tiles[c].sector = sector /\ tiles[c].arena = arena
        \/ free /\ Truthy(sector) /\ tiles[c].sector = sector

\* no rule of target resolution yields a tile for the action
NoRuleYields(pos, act) ==
    LET address == AddressOrEmpty(act.address)
    IN  /\ address.token \notin {"<waiting>", "<random>"}
        /\ ~(Truthy(act.event.object) /\ act.event.object \in DOMAIN other_position)
        /\ ~(/\ address.parts # <<>> /\ Len(address.parts) = 1
             /\ \E c \in DOMAIN tiles : ~tiles[c].collision)
        /\ \A c \in DOMAIN tiles : ~AnswersAddress(c, address)

Count(events, event) == Cardinality({ i \in DOMAIN events : events[i] = event })

(* C18: after every execute call that returns a status other than "idle",   *)
(* the action's event is in the event list of the tile at the agent's       *)
(* position; and when the call moved the agent, the event was removed from  *)
(* the tile it left (one occurrence fewer than after the attachment at the  *)
(* start of the call) and added to the tile it entered (one more), the      *)
(* tiles passed through and all other tiles holding it as often as before.  *)
C18_EventFollowsAgent ==
    [][op' = "execute" =>
         LET event == action.event
             had(c) == Count(tiles[c].events, event)
             has(c) == Count(tiles'[c].events, event)
             attached(c) == IF c = position /\ had(c) = 0 THEN 1 ELSE had(c)
         IN  /\ action'.event = event
             /\ ret' # "idle" => has(position') >= 1
             /\ position' # position =>
                   /\ has(position) = attached(position) - 1
                   /\ has(position') = had(position') + 1
             /\ \A c \in DOMAIN tiles \ {position, position'} : has(c) = had(c)
             /\ position' = position => \A c \in DOMAIN tiles : has(c) = attached(c)
             /\ \A c \in DOMAIN tiles : \A other \in Range(tiles[c].events) \ {event} :
                   Count(tiles'[c].events, other) = Count(tiles[c].events, other)]_vars

\* three steps taken in one call: the event is on the tile reached and on
\* no other
C18_Witness ==
    /\ op = "execute" /\ ret = "moved 3 step(s)"
    /\ Count(tiles[position].events, action.event) = 1
    /\ \A c \in DOMAIN tiles \ {position} : action.event \notin Range(tiles[c].events)

(* C20: a failure of the generator (an exception or a malformed answer) in  *)
(* a planning call never propagates: plan returns normally, and it does not *)
(* leave the action and the tile event lists partially updated, the         *)
(* action's event taken off its tile while the action itself is unchanged.  *)
C20_GeneratorFailureContained ==
    [][op' = "plan" =>
         /\ ret' # Raises
         /\ action' = action => tiles' = tiles]_vars

------------------------------------------------------------------------------
(* The tick loop of main.py: in every tick each agent of the list is        *)
(* synchronised, perceives, retrieves, is cleaned up, plans, executes,      *)
(* perceives again and reflects; then the world's time advances.  The agent *)
(* of the model runs cleanup_expired, plan and execute as modelled above;   *)
(* of the other agent the model holds the position, the event on its tile   *)
(* and the short term time.  Perception, retrieval and reflection write to  *)
(* the memories only and are kept as steps of the loop.  A generator        *)
(* exception that leaves plan ends the loop.                                *)

\* bound of the model: the ticks run (main.py runs 3600 // 5)
MaxTicks == 2

\* the agent the loop is at
TickAgent == agents[turn]

\* the exception of a plan call has ended the loop
LoopEnded == op = "plan" /\ ret = Raises

\* what the planner may determine as the next action
TickDetermined ==
    { Determined("cooking", Event(AgentName, "is", "cooking", "Tom is cooking"), 5,
                 Address(<<WorldName, "inn", "hall", "hearth">>), <<"stirs">>, FALSE, FALSE),
      Determined("", Event(AgentName, "is", "idle", "idle"), 5,
                 Address(<<WorldName, "mill">>), <<>>, TRUE, FALSE),
      Determined(NoneStr, DefaultEvent, NoneInt, NoneAddress, <<>>, FALSE, TRUE) }

TickOutcomes == { Raises, "wait", "move to kitchen" }

\* where the builder and the world's clock leave the times before the loop:
\* the agents' times may be past the world's whole minute; no call has run
\* (every return value of the loop is a string or None)
InitTick ==
    /\ width = ExecWidth /\ height = SmallGrid
    /\ address_index = <<>> /\ addr_index_dirty = TRUE
    /\ current_time = 0
    /\ agents = <<AgentName, OtherName>> /\ turn = 0
    /\ stm_current_time \in [{AgentName, OtherName} -> {0, 1}]
    /\ position = <<0, 0>>
    /\ other_position = [n \in {OtherName} |-> OtherStands]
    /\ \E wall \in ExecWalls \ {OtherStands} :
          tiles = [c \in Coords(ExecWidth, SmallGrid) |->
                     [VillageTile(c) EXCEPT !.collision = (c = wall)]]
    /\ action = AgentAction
    /\ clock = 0
    /\ LongTermMemoryInit
    /\ op = "init" /\ args = <<>> /\ ret = NoneStr /\ prev_op = "init" /\ steps = 0

\* the steps of the loop that touch neither the world nor the agent's action
TickFrame ==
    UNCHANGED <<tmVars, current_time, position, action, agents, other_position,
                stm_current_time, clock, memVars, steps>>

\* "for agent in agents: agent.short_term_memory.current_time = world.current_time"
TickSync ==
    /\ \/ op = "init" /\ turn' = 1
       \/ op = "advance_time" /\ steps < MaxTicks /\ turn' = 1
       \/ op = "reflect" /\ turn < Len(agents) /\ turn' = turn + 1
    /\ stm_current_time' = [stm_current_time EXCEPT ![agents[turn']] = current_time]
    /\ Called("sync", <<agents[turn']>>, NoneStr)
    /\ UNCHANGED <<tmVars, current_time, position, action, agents, other_position,
                   clock, memVars, steps>>

\* perception.perceive, before planning and after execution
TickPerceive ==
    /\ op \in {"sync", "execute"}
    /\ Called("perceive", <<TickAgent>>, NoneStr)
    /\ TickFrame /\ UNCHANGED turn

\* retrieval.retrieve_context
TickRetrieve ==
    /\ op = "perceive" /\ prev_op = "sync"
    /\ Called("retrieve_context", <<TickAgent>>, NoneStr)
    /\ TickFrame /\ UNCHANGED turn

\* executor.cleanup_expired
TickCleanup ==
    /\ op = "retrieve_context"
    /\ IF TickAgent = AgentName
       THEN cleanup_expired
       ELSE /\ Called("cleanup_expired", <<TickAgent>>, NoneStr)
            /\ UNCHANGED <<tmVars, agentVars>>
    /\ UNCHANGED <<current_time, clock, memVars, steps>>

\* planner.plan
TickPlan ==
    /\ op = "cleanup_expired"
    /\ IF TickAgent = AgentName
       THEN \E next \in TickDetermined, focused \in PlanFocused, outcome \in TickOutcomes :
               plan(next, focused, outcome)
       ELSE /\ \E r \in {"idle", Raises} : Called("plan", <<TickAgent>>, r)
            /\ UNCHANGED <<tmVars, current_time, agentVars, clock, memVars>>
    /\ UNCHANGED steps

\* executor.execute(agent, world, max_steps=3); the other agent walks to a
\* free tile at most three steps away or stays, its event with it
TickExecute ==
    /\ op = "plan" /\ ~LoopEnded
    /\ IF TickAgent = AgentName
       THEN execute(3)
       ELSE /\ \E there \in { c \in DOMAIN tiles :
                                \/ c = other_position[TickAgent]
                                \/ ~tiles[c].collision /\ Manhattan(c, other_position[TickAgent]) <= 3 } :
                  /\ other_position' = [other_position EXCEPT ![TickAgent] = there]
                  /\ tiles' = _attach_event_to_current_tile(
                                 [tiles EXCEPT ![other_position[TickAgent]].events =
                                     Tile_remove_event(@, OtherEvent)],
                                 there, OtherEvent)
            /\ stm_current_time' = [stm_current_time EXCEPT ![TickAgent] = current_time]
            /\ Called("execute", <<TickAgent, 3>>, "at destination")
            /\ UNCHANGED <<width, height, address_index, addr_index_dirty, current_time,
                           position, action, agents, turn, clock, memVars>>
    /\ UNCHANGED steps

\* reflact.reflect
TickReflect ==
    /\ op = "perceive" /\ prev_op = "execute"
    /\ Called("reflect", <<TickAgent>>, NoneStr)
    /\ TickFrame /\ UNCHANGED turn

\* the loop advancing the world after every agent instead of after the last
TickAdvance_AfterEachAgent ==
    /\ op = "reflect"
    /\ steps' = steps + 1
    /\ advance_time(TICK_MINUTES)
    /\ UNCHANGED <<tmVars, position, action, agents, other_position, turn, clock, memVars>>

\* "world.advance_time(TICK_MINUTES)" after the loop over the agents
TickAdvance ==
    /\ op = "reflect" /\ turn = Len(agents)
    /\ steps' = steps + 1
    /\ advance_time(TICK_MINUTES)
    /\ UNCHANGED <<tmVars, position, action, agents, other_position, turn, clock, memVars>>

NextTick ==
    \/ TickSync \/ TickPerceive \/ TickRetrieve \/ TickCleanup \/ TickPlan
    \/ TickExecute \/ TickReflect \/ TickAdvance

SpecTick == InitTick /\ [][NextTick]_vars

\* the last agent of the list has finished its tick
LastAgentDone == op = "reflect" /\ turn = Len(agents)

(* C19: in the tick loop the world's time is constant while the agents of   *)
(* one tick are processed: it changes only after the last agent of the list *)
(* has finished its tick, then by the tick length, and never decreases;     *)
(* afterwards every agent's short term time equals the world's time; every  *)
(* agent has the world's time in cleanup, planning and execution; and for   *)
(* each agent cleanup_expired runs before plan and plan before execute.     *)
C19_TimeAdvancesAfterLastAgent ==
    [][/\ current_time' # current_time =>
             /\ LastAgentDone
             /\ current_time' = current_time + Minutes(TICK_MINUTES)
       /\ current_time' >= current_time
       /\ op' = "advance_time" =>
             \A n \in Range(agents) : stm_current_time'[n] = current_time'
       /\ op' \in {"cleanup_expired", "plan", "execute"} =>
             /\ stm_current_time[agents[turn']] = current_time
             /\ stm_current_time'[agents[turn']] = current_time'
       /\ op' = "plan" => op = "cleanup_expired" /\ turn' = turn
       /\ op' = "execute" => op = "plan" /\ turn' = turn]_vars

\* the second tick is over: both agents were processed twice and the world
\* is two tick lengths on
C19_Witness ==
    /\ op = "advance_time" /\ steps = 2
    /\ current_time = Minutes(2 * TICK_MINUTES)
    /\ \A n \in Range(agents) : stm_current_time[n] = current_time
    /\ turn = Len(agents)

------------------------------------------------------------------------------
(* The grid asked about coordinates in and out of bounds: the 2 x 2 grid of *)
(* the tests, one tile at most walled, while events are put on tiles and    *)
(* taken off; the coordinates asked for reach one tile beyond every edge.   *)

\* bound of the model: the calls that may change a tile
MaxProbeOps == 2

ProbeCoords == ((0 - 1)..SmallGrid) \X ((0 - 1)..SmallGrid)

ProbeEvent == Event("hero", "meets", "villain", "")

InitBounds ==
    /\ width = SmallGrid /\ height = SmallGrid
    /\ address_index = <<>> /\ addr_index_dirty = TRUE
    /\ \E wall \in Coords(SmallGrid, SmallGrid) \cup {NoneCoord} :
          tiles = [c \in Coords(SmallGrid, SmallGrid) |->
                     [Tile EXCEPT !.collision = (c = wall)]]
    /\ AgentUnused
    /\ clock = 0
    /\ LongTermMemoryInit
    /\ NoCallYet

BoundsFrame == UNCHANGED <<current_time, agentVars, clock, memVars>>

GetTile ==
    /\ \E c \in ProbeCoords : Called("get_tile", c, get_tile(c[1], c[2]))
    /\ BoundsFrame /\ UNCHANGED <<tmVars, steps>>

IsWithinBounds ==
    /\ \E c \in ProbeCoords :
          Called("is_within_bounds", c, Returned(is_within_bounds(c[1], c[2])))
    /\ BoundsFrame /\ UNCHANGED <<tmVars, steps>>

IsCollidable ==
    /\ \E c \in ProbeCoords : Called("is_collidable", c, is_collidable(c[1], c[2]))
    /\ BoundsFrame /\ UNCHANGED <<tmVars, steps>>

ProbeAddEvent ==
    /\ steps < MaxProbeOps
    /\ steps' = steps + 1
    /\ \E c \in ProbeCoords : add_event_to_tile(c[1], c[2], ProbeEvent)
    /\ BoundsFrame

ProbeRemoveEvent ==
    /\ steps < MaxProbeOps
    /\ steps' = steps + 1
    /\ \E c \in ProbeCoords : remove_event_from_tile(c[1], c[2], ProbeEvent)
    /\ BoundsFrame

NextBounds == GetTile \/ IsWithinBounds \/ IsCollidable \/ ProbeAddEvent \/ ProbeRemoveEvent

SpecBounds == InitBounds /\ [][NextBounds]_vars

\* the operations that take a coordinate
CoordinateOps ==
    {"get_tile", "is_within_bounds", "is_collidable", "add_event_to_tile",
     "remove_event_from_tile"}

\* (x, y) lies outside 0 <= x < width and 0 <= y < height
Outside(x, y) == ~(0 <= x /\ x < width /\ 0 <= y /\ y < height)

(* C21: get_tile(x, y) raises ValueError exactly when (x, y) lies outside    *)
(* 0 <= x < width and 0 <= y < height, and returns the tile there            *)
(* otherwise; is_within_bounds(x, y) is false exactly for those coordinates; *)
(* add_event_to_tile, remove_event_from_tile and is_collidable on such a     *)
(* coordinate raise ValueError too and change no tile.                       *)
C21_OutOfBoundsFails ==
    [][op' \in CoordinateOps =>
         LET x == args'[1]
             y == args'[2]
         IN  /\ op' = "is_within_bounds" =>
                   ret'.raises = NoneStr /\ (ret'.value <=> ~Outside(x, y))
             /\ op' # "is_within_bounds" =>
                   /\ ret'.raises = ValueError <=> Outside(x, y)
                   /\ ret'.raises \in {ValueError, NoneStr}
                   /\ Outside(x, y) => tiles' = tiles
             /\ (op' = "get_tile" /\ ~Outside(x, y)) => ret'.value = tiles[<<x, y>>]]_vars

\* an event is taken off a coordinate beyond the right edge while a tile
\* holds it
C21_Witness ==
    /\ op = "remove_event_from_tile" /\ args[1] = SmallGrid
    /\ ret.raises = ValueError
    /\ \E c \in DOMAIN tiles : ProbeEvent \in Range(tiles[c].events)

------------------------------------------------------------------------------
(* More about the executor at work, on the village of SpecExec *)

\* the address index as a lookup in this state finds it
IndexLookedUp ==
    IF addr_index_dirty THEN _rebuild_address_index(tiles, width, height) ELSE address_index

\* the tiles target resolution may give for the action: the end of the path
\* being followed, or what _select_target_tile returns
ResolvedTargets(pos, act) ==
    IF act.path.is_set /\ act.path.path # <<>>
    THEN {act.path.path[Len(act.path.path)]}
    ELSE _select_target_tile(IndexLookedUp, pos, act)

\* the step handled an arrival: the chat timer was started or a subtask taken
ArrivalHandled ==
    \/ action'.chat.end_time # action.chat.end_time
    \/ action'.subtasks # action.subtasks

(* C22 as stated: arrival handling (the chat timer started, a subtask       *)
(* consumed and logged) happens in an execute call only when the agent's    *)
(* position then equals the target tile resolved for the action; with a     *)
(* resolved target that is unreachable or collidable no chat timer is       *)
(* started and no subtask is consumed.                                      *)
C22_ArrivalOnlyAtTarget ==
    [][(op' = "execute" /\ ArrivalHandled)
          => position' \in ResolvedTargets(position, action)]_vars

\* the action's path has been resolved and walked to its end
PathExhausted(act) == act.path.is_set /\ act.path.path = <<>>

(* C23 as stated: once an action's path has been resolved and exhausted     *)
(* (path.is_set true, no steps left), a later execute call on the unchanged *)
(* action resolves no target again, computes no new path and does not move  *)
(* the agent, whatever the kind of address.                                 *)
C23_NoResolutionAfterArrival ==
    [][(op' = "execute" /\ PathExhausted(action))
          => (position' = position /\ action'.path = action.path)]_vars

------------------------------------------------------------------------------
(* The tick loop running on: main.py is one sequential loop, so as long as  *)
(* a statement of the loop is next (the loop is neither over nor ended by   *)
(* an exception) some statement runs.  Every statement of the loop changes  *)
(* op, which is what the fairness condition is written over.                *)

\* the loop has no next statement: an exception ended it or its ticks are over
LoopStopped == LoopEnded \/ (op = "advance_time" /\ steps = MaxTicks)

LoopOps ==
    {"sync", "perceive", "retrieve_context", "cleanup_expired", "plan", "execute",
     "reflect", "advance_time"}

\* some statement of the loop runs
LoopGoesOn == ~LoopStopped /\ op' \in LoopOps \ {op}

FairSpecTick == InitTick /\ [][NextTick]_vars /\ WF_op(LoopGoesOn)

\* the action has start_time and duration set
Timed(act) == act.start_time # NoneInt /\ act.duration # NoneInt

\* cleanup_expired has just found the agent's action finished and cleaned up
CleanedUp == op = "cleanup_expired" /\ args = <<>> /\ ret = "cleaned"

\* the ticks of the model are over
HorizonReached == steps = MaxTicks

(* C24 as stated: in the tick loop, with the world's time advancing every   *)
(* tick, every action that has start_time and duration set eventually       *)
(* satisfies is_chat_finished and is then cleaned up (here: unless the      *)
(* ticks of the model are over first).                                      *)
C24_ActionsEventuallyCleanedUp ==
    Timed(action) ~> (CleanedUp \/ HorizonReached)

\* the tiles the action's address and event may resolve to, from any tile
CouldResolveTo(act) ==
    UNION { _select_target_tile(IndexLookedUp, p, act) : p \in DOMAIN tiles }

(* C25 as stated: whenever an execute call starts with path.is_set true and *)
(* steps left, the steps lead to a target that the action's current address *)
(* and event resolve to; after the planner has changed the address or the   *)
(* event in place in the middle of a path, the next execute call follows a  *)
(* path to the new target, not the path planned for the previous one.       *)
C25_PathLeadsToCurrentTarget ==
    [][(/\ op' = "execute" /\ ~ObjectIsWaiting(action.event)
        /\ action.path.is_set /\ action.path.path # <<>>)
          => /\ action.path.path[Len(action.path.path)] \in CouldResolveTo(action)
             /\ position' # position =>
                   \E target \in CouldResolveTo(action) :
                      /\ Len(_find_path(position, target)) > 1
                      /\ position' \in Range(_find_path(position, target))]_vars

\* b is reached from a by at most n steps, each onto a non-collidable
\* in-bounds 4-neighbour
RECURSIVE StepsWithin(_, _, _)
StepsWithin(a, b, n) ==
    \/ a = b
    \/ /\ n > 0
       /\ \E c \in Around(a) : ~tiles[c].collision /\ StepsWithin(c, b, n - 1)

(* C26: collision flags never change; in any sequence of execute,           *)
(* cleanup_expired, planner changes of the action and time advances, an     *)
(* agent on an in-bounds non-collidable tile is on such a tile after the    *)
(* step, only execute moves it, every movement step of execute (at most     *)
(* max_steps of them) enters one of the four neighbours of the tile before, *)
(* and the steps left in the path go on the same way.                       *)
C26_StaysOnFreeTiles ==
    [][/\ \A c \in DOMAIN tiles : tiles'[c].collision = tiles[c].collision
       /\ ~tiles[position].collision
            => /\ position' \in DOMAIN tiles /\ ~tiles[position'].collision
               /\ IsWalk(<<position'>> \o action'.path.path)
               /\ position' # position
                     => op' = "execute" /\ StepsWithin(position, position', args'[2])]_vars

\* after a reaction of the planner, three steps taken around a wall
C26_Witness ==
    /\ op = "execute" /\ prev_op = "plan" /\ ret = "moved 3 step(s)"
    /\ \E c \in DOMAIN tiles : tiles[c].collision
    /\ ~tiles[position].collision

(* C27: however cleanup_expired, the planner's reactions (which take the    *)
(* old event off the agent's tile before they replace it) and execute       *)
(* follow one another, the agent's current action event occurs at most once *)
(* in the event list of the agent's tile and in no other tile's event list. *)
C27_EventOnOwnTileOnce ==
    \A c \in DOMAIN tiles :
        Count(tiles[c].events, action.event) <= (IF c = position THEN 1 ELSE 0)

\* the planner has replaced the event, and execute has run twice on it: the
\* event was attached once and went with the agent
C27_Witness ==
    /\ op = "execute" /\ prev_op = "execute" /\ ret = "moved 1 step(s)"
    /\ action.event.predicate = "move to"
    /\ Count(tiles[position].events, action.event) = 1

------------------------------------------------------------------------------
(* More about retrieval *)

(* C28 as stated: for each focal description, the node list that            *)
(* retrieve_relevant_nodes returns is ranked: its nodes appear in           *)
(* non-increasing order of their combined weighted score.                   *)
C28_ResultRankedByScore ==
    [][op' = "retrieve_relevant_nodes" =>
         \A description \in DOMAIN ret' :
            LET score  == combined_score(Candidates, description)
                listed == ret'[description]
            IN  \A i, j \in 1..Len(listed) :
                   i < j => score[listed[i]] >= score[listed[j]]]_vars

------------------------------------------------------------------------------
(* The chat timer and the order of the target rules *)

\* the larger of two numbers
Larger(a, b) == IF a >= b THEN a ELSE b

\* minutes = max(5, duration or 10), as the spec states it
StatedChatMinutes(duration) ==
    Larger(5, IF duration = NoneInt \/ duration = 0 THEN 10 ELSE duration)

\* the execute call of the step ran to the end of the path
PathRanOut ==
    /\ op' = "execute"
    /\ ret' \notin {"idle", "waiting", "no target"}
    /\ action'.path.path = <<>>

(* C29: when the path is exhausted for an action whose predicate is "chat   *)
(* with" and whose chat.end_time is unset, execute sets chat.with_whom to    *)
(* the event's object if it was unset and leaves it otherwise, sets          *)
(* chat.end_time = now + minutes with minutes = max(5, duration or 10),      *)
(* chat.buffer[chat.with_whom] = max(5, minutes // 2) and the description to *)
(* "chatting with" that partner; with chat.end_time already set, a later     *)
(* arrival leaves chat.end_time, chat.with_whom and chat.buffer unchanged.   *)
C29_ChatTimerStartedOnce ==
    [][(PathRanOut /\ IsChatWith(action.event)) =>
          IF action.chat.end_time = NoneInt
          THEN LET minutes == StatedChatMinutes(action.duration)
                   partner == action'.chat.with_whom
               IN  /\ partner = IF action.chat.with_whom = NoneStr THEN action.event.object
                                 ELSE action.chat.with_whom
                   /\ action'.chat.end_time = current_time + Minutes(minutes)
                   /\ partner \in DOMAIN action'.chat.buffer
                   /\ action'.chat.buffer[partner] = Larger(5, minutes \div 2)
                   /\ action'.description = "chatting with " \o partner
          ELSE /\ action'.chat.end_time = action.chat.end_time
               /\ action'.chat.with_whom = action.chat.with_whom
               /\ action'.chat.buffer = action.chat.buffer]_vars

\* the agent has arrived after the world's time moved on: the timer runs
\* from the arrival, twenty minutes for an action of that duration
C29_Witness ==
    /\ op = "execute" /\ current_time > 0
    /\ action.duration = 20
    /\ action.chat.with_whom = OtherName
    /\ action.chat.end_time = current_time + Minutes(20)
    /\ action.chat.buffer = [n \in {OtherName} |-> 10]
    /\ action.description = "chatting with Bob"

(* Target selection on its own: the village, the agent and the actions of   *)
(* SpecExec, the other agent walking about, and _select_target_tile asked   *)
(* for the agent's action as execute asks it.                               *)

\* bound of the model: walks of the other agent
MaxOtherWalks == 1

\* the other agent's execute: up to three steps to a free tile, its event
\* with it
OtherWalks ==
    /\ steps < MaxOtherWalks
    /\ steps' = steps + 1
    /\ \E there \in { c \in DOMAIN tiles :
                         ~tiles[c].collision /\ Manhattan(c, other_position[OtherName]) <= 3 } :
          /\ other_position' = [other_position EXCEPT ![OtherName] = there]
          /\ tiles' = _attach_event_to_current_tile(
                         [tiles EXCEPT ![other_position[OtherName]].events =
                             Tile_remove_event(@, OtherEvent)],
                         there, OtherEvent)
    /\ Called("execute", <<OtherName, 3>>, "at destination")
    /\ UNCHANGED <<width, height, address_index, addr_index_dirty, current_time, position,
                   action, agents, stm_current_time, turn, clock, memVars>>

\* "target = self._select_target_tile(agent, world)"
SelectTargetTile ==
    /\ LET index == IF ReachesIndex(position, action)
                    THEN [index |-> IndexLookedUp, dirty |-> FALSE]
                    ELSE [index |-> address_index, dirty |-> addr_index_dirty]
       IN  /\ \E target \in _select_target_tile(index.index, position, action) :
                 Called("_select_target_tile", <<AgentName>>, target)
           /\ address_index' = index.index
           /\ addr_index_dirty' = index.dirty
    /\ UNCHANGED <<width, height, tiles, current_time, agentVars, clock, memVars, steps>>

NextTarget == OtherWalks \/ SelectTargetTile

SpecTarget == InitExec /\ [][NextTarget]_vars

\* the non-collidable tiles within the vision radius of pos
FreeInSight(pos) ==
    { c \in DOMAIN tiles :
        /\ ~tiles[c].collision
        /\ c[1] - pos[1] <= vision_range /\ pos[1] - c[1] <= vision_range
        /\ c[2] - pos[2] <= vision_range /\ pos[2] - c[2] <= vision_range }

\* the free tiles the address index holds under exactly the address
ExactlyAddressed(address) ==
    { c \in DOMAIN tiles : ~tiles[c].collision /\ address.parts \in IndexKeys(tiles[c]) }

(* C30: _select_target_tile applies its rules in order and the first that   *)
(* applies decides.  A "<waiting> x y" token yields (x, y) when that tile is *)
(* in bounds and non-collidable and the agent's own position otherwise; else *)
(* "<random>" yields a non-collidable tile within the vision radius, or the  *)
(* agent's position; else an event object naming another agent yields that   *)
(* agent's current position, whatever the address; else a colon-free address *)
(* yields a non-collidable tile in sight; else the exact lookup in the       *)
(* address index decides, and after it the wildcard search; None is returned *)
(* only when every rule fails.                                               *)
C30_FirstApplicableRuleDecides ==
    op = "_select_target_tile" =>
        LET address == AddressOrEmpty(action.address)
            target  == ret
        IN  IF address.token = "<waiting>"
            THEN target = IF address.at \in DOMAIN tiles /\ ~tiles[address.at].collision
                          THEN address.at ELSE position
            ELSE IF address.token = "<random>"
            THEN IF FreeInSight(position) # {} THEN target \in FreeInSight(position)
                 ELSE target = position
            ELSE IF Truthy(action.event.object) /\ action.event.object \in DOMAIN other_position
            THEN target = other_position[action.event.object]
            ELSE IF Len(address.parts) = 1 /\ FreeInSight(position) # {}
            THEN target \in FreeInSight(position)
            ELSE IF ExactlyAddressed(address) # {}
            THEN target \in ExactlyAddressed(address)
            ELSE IF \E c \in DOMAIN tiles : AnswersAddress(c, address)
            THEN target \in DOMAIN tiles
            ELSE target = NoneCoord

\* the event names Bob, who has walked on, and the address is one the index
\* holds: the target is the tile Bob stands on now, not the hearth
C30_Witness ==
    /\ op = "_select_target_tile" /\ prev_op = "execute"
    /\ action.event.object = OtherName
    /\ action.address = Address(<<WorldName, "inn", "hall", "hearth">>)
    /\ other_position[OtherName] # OtherStands
    /\ ret = other_position[OtherName]
    /\ ret \notin ExactlyAddressed(action.address)

(* Target selection among candidates: the village with up to two walls, an  *)
(* agent whose action names a place, and _select_target_tile asked as in    *)
(* SpecTarget.                                                              *)

\* bound of the model: walled tiles
MaxWalls == 2

StandAddresses ==
    { Address(<<WorldName, "inn", "hall", "hearth">>),
      Address(<<WorldName, "inn", "hall">>),
      Address(<<WorldName, "inn", "cellar">>),
      Address(<<WorldName, "farm">>),
      Address(<<WorldName, "mill">>) }

InitStand ==
    /\ width = ExecWidth /\ height = SmallGrid
    /\ address_index = <<>> /\ addr_index_dirty = TRUE
    /\ current_time = 0
    /\ agents = <<AgentName, OtherName>> /\ turn = 0
    /\ stm_current_time = [n \in {AgentName, OtherName} |-> 0]
    /\ position \in Coords(ExecWidth, SmallGrid)
    /\ other_position = [n \in {OtherName} |-> OtherStands]
    /\ \E walls \in { W \in SUBSET Coords(ExecWidth, SmallGrid) : Cardinality(W) <= MaxWalls } :
          tiles = [c \in Coords(ExecWidth, SmallGrid) |->
                     [VillageTile(c) EXCEPT
                         !.collision = (c \in walls),
                         !.events = IF c = OtherStands THEN <<OtherEvent>> ELSE <<>>]]
    /\ \E address \in StandAddresses :
          action = [AgentAction EXCEPT
                       !.start_time = 0, !.duration = 5, !.description = "sleeping",
                       !.event = Event(AgentName, "is", "sleeping", "Tom is sleeping"),
                       !.address = address]
    /\ clock = 0
    /\ LongTermMemoryInit
    /\ NoCallYet

SpecStand == InitStand /\ [][NextTarget]_vars

\* (dx)^2 + (dy)^2 between two tiles
SquaredEuclidean(a, b) ==
    (a[1] - b[1]) * (a[1] - b[1]) + (a[2] - b[2]) * (a[2] - b[2])

\* the non-collidable in-bounds 4-neighbours of b with its sector and arena
FreeAlike(b) ==
    { n \in Around(b) : /\ ~tiles[n].collision
                        /\ tiles[n].sector = tiles[b].sector
                        /\ tiles[n].arena = tiles[b].arena }

\* the target of the call came from the address index or the wildcard search
FromCandidates ==
    /\ op = "_select_target_tile"
    /\ ReachesIndex(position, action)
    /\ TargetCandidates(IndexLookedUp, action) # <<>>

(* C31: when the target is taken from address-index or wildcard candidates, *)
(* the candidate chosen is one of least squared Euclidean distance to the   *)
(* agent's position; the target returned is that candidate when it is not   *)
(* collidable, else a non-collidable in-bounds 4-neighbour with the same    *)
(* sector and arena if there is one, else the collidable candidate itself.  *)
C31_NearestCandidateOrNeighbour ==
    FromCandidates =>
        LET candidates == Range(TargetCandidates(IndexLookedUp, action))
            nearest == { c \in candidates :
                           \A d \in candidates :
                              SquaredEuclidean(c, position) <= SquaredEuclidean(d, position) }
        IN  \E best \in nearest :
               IF ~tiles[best].collision THEN ret = best
               ELSE IF FreeAlike(best) # {} THEN ret \in FreeAlike(best)
               ELSE ret = best

\* both tiles of the farm are walled: the target is the nearer of them, a
\* collidable tile
C31_Witness ==
    /\ FromCandidates
    /\ action.address = Address(<<WorldName, "farm">>)
    /\ ret \in DOMAIN tiles /\ tiles[ret].collision
    /\ FreeAlike(ret) = {}
    /\ \E c \in DOMAIN tiles \ {ret} : tiles[c].sector = "farm"

------------------------------------------------------------------------------
(* The top-N cut: the memory of SpecRetr, retrieve_relevant_nodes with its  *)
(* max_results, and _top_n asked over the same combined scores for smaller  *)
(* n, where the cut acts on a memory of a few nodes.                        *)

\* bound of the model: the n that _top_n is asked for
MaxTopN == 2

TopN ==
    /\ \E description \in {"Tom eats bread", "What is Bob doing"}, n \in 0..MaxTopN :
          \E top \in _top_n(combined_score(Candidates, description), n) :
             Called("_top_n", <<description, n>>, top)
    /\ UNCHANGED <<tmVars, current_time, agentVars, clock, memVars, steps>>

NextTop == StoreEvent \/ StoreThought \/ RetrieveRelevantNodes \/ TopN

SpecTop == InitRetr /\ [][NextTop]_vars

CandidateIds == { Candidates[i].node_id : i \in DOMAIN Candidates }

\* the three raw scores as the spec states them: decay^rank over the
\* newest-first candidates (in units of 100^-len), the node's relevance, and
\* the cosine similarity (in halves) of the nodes that have an embedding
StatedRaw(description) ==
    LET len == Len(Candidates)
        rank(id) == (CHOOSE i \in 1..len : Candidates[i].node_id = id) - 1
        node(id) == CHOOSE n \in Range(Candidates) : n.node_id = id
    IN  << [id \in CandidateIds |-> Power(recency_decay, rank(id)) * Power(100, len - rank(id))],
           [id \in CandidateIds |-> node(id).relevance],
           [id \in { i \in CandidateIds : node(i).embedding # NoneInt } |->
               IF node(id).embedding = get_embedding(description) THEN 2 ELSE 1] >>

\* a raw score min-max normalised to [0, 1], as numerator and denominator; a
\* flat range gives 1/2, a missing entry counts 0
StatedNormal(raw, id) ==
    LET lo == CHOOSE v \in Range(raw) : \A u \in Range(raw) : v <= u
        hi == CHOOSE v \in Range(raw) : \A u \in Range(raw) : v >= u
    IN  IF id \notin DOMAIN raw THEN <<0, 1>>
        ELSE IF hi = lo THEN <<1, 2>>
        ELSE <<raw[id] - lo, hi - lo>>

\* the weighted sum of id's three normalised scores is at least that of other
ScoresAtLeast(description, id, other) ==
    LET raw == StatedRaw(description)
        weight == <<recency_weight, importance_weight, relevance_weight>>
        f(k, x) == StatedNormal(raw[k], x)
        \* the sum of three fractions, as numerator over the product of the
        \* denominators
        num(x) == weight[1] * f(1, x)[1] * f(2, x)[2] * f(3, x)[2]
                  + weight[2] * f(2, x)[1] * f(1, x)[2] * f(3, x)[2]
                  + weight[3] * f(3, x)[1] * f(1, x)[2] * f(2, x)[2]
        den(x) == f(1, x)[2] * f(2, x)[2] * f(3, x)[2]
    IN  num(id) * den(other) >= num(other) * den(id)

------------------------------------------------------------------------------
(* More about the completion predicate *)

\* t rounded up to the next whole minute: t itself when it is a whole minute
CeilToMinute(t) == IF t % Minute = 0 THEN t ELSE ((t \div Minute) + 1) * Minute

(* C33 as stated: for an action without chat partner, with start_time and   *)
(* duration set, the generic end time is start_time rounded up to the next  *)
(* whole minute (unchanged for a whole minute, rounded up for any non-zero  *)
(* sub-minute part) plus duration minutes, and is_chat_finished(now) is     *)
(* true exactly when now >= that end time; with start_time or duration      *)
(* unset the action is never finished.                                      *)
C33_EndTimeCeilToMinute ==
    (Queried /\ action.chat.with_whom = NoneStr) =>
        IF action.start_time = NoneInt \/ action.duration = NoneInt
        THEN ret = FALSE
        ELSE ret = (QueryNow >= CeilToMinute(action.start_time) + Minutes(action.duration))

------------------------------------------------------------------------------
(* The movement loop of execute *)

\* the paths an execute call may hold when it enters its loop: the steps left
\* of a set path, or a path found to a target without its first element
PathsBeforeLoop ==
    IF action.path.is_set /\ action.path.path # <<>>
    THEN { action.path.path }
    ELSE { SubSeq(found, 2, Len(found)) :
             found \in { _find_path(position, target) :
                           target \in _select_target_tile(IndexLookedUp, position, action)
                                         \ {NoneCoord} } }

StatedSteps(max_steps, remaining) ==
    IF max_steps < Len(remaining) THEN max_steps ELSE Len(remaining)

(* C34: a computed path begins with the agent's tile and is stored without  *)
(* that first element, with is_set true; an execute call that reaches its   *)
(* movement loop moves the agent exactly min(max_steps, steps left)         *)
(* single-tile moves, taking the steps from the front of the path in order, *)
(* and the number of steps it reports never exceeds max_steps.              *)
C34_MovesMinOfMaxStepsAndRest ==
    [][(/\ op' = "execute" /\ ~ObjectIsWaiting(action.event)
        /\ ret' \notin {"idle", "no target"})
          => /\ action'.path.is_set
             /\ ~(action.path.is_set /\ action.path.path # <<>>) =>
                   \A target \in _select_target_tile(IndexLookedUp, position, action)
                                   \ {NoneCoord} :
                      Head(_find_path(position, target)) = position
             /\ \E remaining \in PathsBeforeLoop :
                   LET k == StatedSteps(args'[2], remaining)
                   IN  /\ k <= args'[2]
                       /\ action'.path.path = SubSeq(remaining, k + 1, Len(remaining))
                       /\ position' = IF k = 0 THEN position ELSE remaining[k]
                       /\ IsWalk(SubSeq(remaining, 1, k))
                       /\ k > 0 => Adjacent(position, remaining[1])
                       /\ ~IsChatWith(action.event) =>
                             ret' = IF k = 0 THEN "at destination"
                                    ELSE "moved " \o ToString(k) \o " step(s)"]_vars

\* a second call with max_steps 1 takes one step of a path that has more
C34_Witness ==
    /\ op = "execute" /\ prev_op = "execute" /\ args[2] = 1
    /\ ret = "moved 1 step(s)" /\ action.path.path # <<>>

------------------------------------------------------------------------------
(* Subtasks on arrival *)

\* the store has gained exactly one event node, for subtask s
LoggedOnce(s) ==
    /\ node_counter' = node_counter + 1
    /\ \E node \in Range(node_sequences'["event"]) :
          /\ node_sequences' = [node_sequences EXCEPT !["event"] = <<node>> \o @]
          /\ node.node_id = node_counter'
          /\ node.event.description = AgentName \o " " \o s \o "."
          /\ node.relevance = 5

\* an execute call that has walked to the end of its path
ArrivedBy(max_steps) ==
    \E remaining \in PathsBeforeLoop :
       /\ Len(remaining) <= max_steps
       /\ position' = IF remaining = <<>> THEN position ELSE remaining[Len(remaining)]

------------------------------------------------------------------------------
(* What a retrieval writes: the stores and the clock of the retrieval       *)
(* scenario, with every kind of retrieval asked for.                        *)

\* the events of the perceived nodes handed to retrieve_context
PerceivedLists == { <<>>, <<Event("TOM", "eats", "bread", "TOM eats bread")>>,
                    <<Event("Bob", "IS", "idle", "Bob IS idle"),
                      Event("Tom", "eats", "bread", "Tom eats bread")>> }

TouchRetrievals ==
    { "retrieve_relevant_nodes", "retrieve_relevant_events", "retrieve_relevant_thoughts",
      "retrieve_context" }

TouchRelevantNodes ==
    /\ op \notin TouchRetrievals
    /\ \E focal_descriptions \in FocalLists : retrieve_relevant_nodes(focal_descriptions)
    /\ RetrFrame /\ UNCHANGED steps

TouchRelevantEvents ==
    /\ op \notin TouchRetrievals
    /\ \E event \in KeyEvents : retrieve_relevant_events(event)
    /\ RetrFrame /\ UNCHANGED steps

TouchRelevantThoughts ==
    /\ op \notin TouchRetrievals
    /\ \E event \in KeyEvents : retrieve_relevant_thoughts(event)
    /\ RetrFrame /\ UNCHANGED steps

TouchContext ==
    /\ op \notin TouchRetrievals
    /\ \E perceived \in PerceivedLists : retrieve_context(perceived)
    /\ RetrFrame /\ UNCHANGED steps

\* a chat node stored as Agent.add_long_term_memory stores one
TouchChat ==
    /\ node_counter < MaxStored
    /\ add_chat(Event("Tom", "eats", "bread", "Tom eats bread"), 5, {"Tom"}, NoneInt)
    /\ RetrFrame /\ UNCHANGED steps

\* the clock moves on a little, or past the life of a thought
TouchClock ==
    /\ steps < MaxAdvances
    /\ steps' = steps + 1
    /\ \E d \in {Second, Days(ThoughtDays) + Second} : clock' = clock + d
    /\ Called("advance_clock", <<>>, NoneInt)
    /\ RetrFrame /\ UNCHANGED memVars

NextTouch ==
    \/ StoreEvent \/ StoreThought \/ TouchChat \/ TouchClock
    \/ TouchRelevantNodes \/ TouchRelevantEvents \/ TouchRelevantThoughts \/ TouchContext

SpecTouch == InitRetr /\ [][NextTouch]_vars

\* the time a retrieval stamps: the agent's current time, the clock without
StatedNow == IF current_time # NoneInt THEN current_time ELSE clock

(* C36: retrieve_relevant_nodes sets last_accessed to the current time on   *)
(* exactly the nodes it returns; the nodes it does not return, and every    *)
(* node during retrieve_relevant_events, retrieve_relevant_thoughts and     *)
(* retrieve_context, keep theirs; no retrieval changes a node's id,         *)
(* created, relevance or expiration, or any other field.                    *)
C36_OnlyReturnedNodesTouched ==
    [][op' \in TouchRetrievals =>
          \A t \in NodeTypes :
             /\ Len(node_sequences'[t]) = Len(node_sequences[t])
             /\ \A i \in 1..Len(node_sequences[t]) :
                   LET before == node_sequences[t][i]
                       after  == node_sequences'[t][i]
                   IN  /\ after = [before EXCEPT !.last_accessed = after.last_accessed]
                       /\ after.last_accessed =
                             IF /\ op' = "retrieve_relevant_nodes"
                                /\ \E d \in DOMAIN ret' : before.node_id \in Range(ret'[d])
                             THEN StatedNow
                             ELSE before.last_accessed]_vars

\* one node returned and stamped with a later time, one left out and left
\* as it was stored
C36_Witness ==
    /\ op = "retrieve_relevant_nodes"
    /\ \E n, m \in AllNodes :
          /\ \E d \in DOMAIN ret : n.node_id \in Range(ret[d])
          /\ n.last_accessed # n.created
          /\ \A d \in DOMAIN ret : m.node_id \notin Range(ret[d])
          /\ m.last_accessed = m.created

------------------------------------------------------------------------------
(* The waiting action *)

(* C37: when the action's event object is "waiting" in any letter case,     *)
(* execute returns "waiting" without resolving a target, computing a path   *)
(* or moving: position, the steps of the path and is_set (and the rest of   *)
(* the action, the address index and the store) are unchanged, and the only *)
(* change to the tiles is the attachment of the event to the agent's tile   *)
(* when it is not there yet.                                                *)
C37_WaitingDoesNotMove ==
    [][(op' = "execute" /\ ObjectIsWaiting(action.event))
          => /\ ret' = "waiting"
             /\ position' = position
             /\ action' = action
             /\ address_index' = address_index /\ addr_index_dirty' = addr_index_dirty
             /\ UNCHANGED memVars
             /\ tiles' = IF action.event \in Range(tiles[position].events) THEN tiles
                         ELSE [tiles EXCEPT ![position].events = Append(@, action.event)]
             /\ Count(tiles'[position].events, action.event) = 1]_vars

\* told to wait in the middle of a path, the agent stays where it is with
\* the steps it has left
C37_Witness ==
    /\ op = "execute" /\ ret = "waiting" /\ prev_op = "plan"
    /\ action.path.is_set /\ action.path.path # <<>>
    /\ action.event \in Range(tiles[position].events)

------------------------------------------------------------------------------
(* The order of the sequences and keyword lists *)

\* the id numbers fall strictly from head to tail
StrictlyDecreasing(ids) == \A i \in 1..(Len(ids) - 1) : ids[i] > ids[i + 1]

\* the ids of a type sequence, head first
SequenceIds(t) == [i \in 1..Len(node_sequences[t]) |-> node_sequences[t][i].node_id]

(* C38 as stated: after any sequence of add_event, add_thought and add_chat *)
(* calls each type sequence and each keyword list is ordered most recent    *)
(* first: the id numbers strictly decrease from head to tail, so no node    *)
(* appears twice in a list, also when a node's keywords differ only in      *)
(* letter case.                                                             *)
C38_MostRecentFirst ==
    /\ \A t \in NodeTypes : StrictlyDecreasing(SequenceIds(t))
    /\ \A index \in {keyword_to_event, keyword_to_thought, keyword_to_chat} :
          \A key \in DOMAIN index : StrictlyDecreasing(index[key])

------------------------------------------------------------------------------
(* The store only grows *)

\* the list new ends with the list old
EndsWith(new, old) ==
    /\ Len(new) >= Len(old)
    /\ SubSeq(new, Len(new) - Len(old) + 1, Len(new)) = old

\* every keyword list of the index is still there, behind what was added
KeptIn(old_index, new_index) ==
    \A key \in DOMAIN old_index :
       key \in DOMAIN new_index /\ EndsWith(new_index[key], old_index[key])

\* the ids a retrieval has returned
ReturnedIds ==
    IF op \in {"retrieve_relevant_events", "retrieve_relevant_thoughts"} THEN Range(ret)
    ELSE IF op \in {"retrieve_relevant_nodes", "retrieve_context"}
    THEN UNION { Range(ret[d]) : d \in DOMAIN ret }
    ELSE {}

(* C39: the store is append-only and expiry is lazy: no add and no lookup   *)
(* removes a node from a type sequence or a keyword list, also when the     *)
(* lookup meets expired nodes; after any operation each sequence and list   *)
(* is the newly added nodes followed by its earlier content, and expired    *)
(* nodes are only left out of what the lookups return.                      *)
C39_StoreOnlyGrows ==
    [][/\ \A t \in NodeTypes :
             /\ EndsWith(SequenceIds(t)', SequenceIds(t))
             /\ Len(node_sequences'[t]) <= Len(node_sequences[t]) + 1
             /\ \A i \in 1..Len(node_sequences[t]) :
                   LET before == node_sequences[t][i]
                       after  == node_sequences'[t][Len(node_sequences'[t])
                                                     - Len(node_sequences[t]) + i]
                   IN  after = [before EXCEPT !.last_accessed = after.last_accessed]
       /\ KeptIn(keyword_to_event, keyword_to_event')
       /\ KeptIn(keyword_to_thought, keyword_to_thought')
       /\ KeptIn(keyword_to_chat, keyword_to_chat')
       /\ \A id \in ReturnedIds' : ~is_expired(NodeById(id), clock)]_vars

\* a lookup has met an expired thought: it is left out of the result and
\* still in its sequence and under its keyword
C39_Witness ==
    /\ op = "retrieve_relevant_thoughts" /\ args[1].subject = "TOM"
    /\ \E n \in Range(node_sequences["thought"]) :
          /\ is_expired(n, clock)
          /\ n.node_id \notin Range(ret)
          /\ n.node_id \in Range(keyword_to_thought["tom"])

------------------------------------------------------------------------------
(* The keyword strength counters *)

\* the nodes of type t added with a keyword that lower-cases to key
AddedWith(t, key) ==
    { n \in AllNodes : n.node_type = t /\ \E k \in n.keywords : Lower(k) = key }

\* the event's predicate and object are the sentinel "is idle"
StatedIdle(event) == event.predicate = "is" /\ event.object = "idle"

(* C40 as stated: every add with keywords puts the node under every         *)
(* lower-cased keyword and increments that keyword's strength counter by    *)
(* exactly one, so the counter of a keyword equals the number of non-idle   *)
(* nodes of that type added with it; a node whose event's predicate and     *)
(* object are "is idle" is indexed under its keywords and leaves every      *)
(* counter unchanged.                                                       *)
C40_StrengthCountsNonIdleNodes ==
    /\ \A n \in AllNodes : \A k \in n.keywords :
          LET index == IF n.node_type = "event" THEN keyword_to_event
                       ELSE IF n.node_type = "thought" THEN keyword_to_thought
                       ELSE keyword_to_chat
          IN  Lower(k) \in DOMAIN index /\ n.node_id \in Range(index[Lower(k)])
    /\ \A key \in DOMAIN keyword_to_event :
          DictGet(keyword_strength_event, key, 0)
             = Cardinality({ n \in AddedWith("event", key) : ~StatedIdle(n.event) })
    /\ \A key \in DOMAIN keyword_to_thought :
          DictGet(keyword_strength_thought, key, 0)
             = Cardinality({ n \in AddedWith("thought", key) : ~StatedIdle(n.event) })

====
